---- MODULE Spec2Model ----
(***************************************************************************)
(* A model of downshift's state engine: the Downshift class component      *)
(* (src/src/downshift.js) and the shared hook utilities                    *)
(* (src/unnamed/part_000: useEnhancedReducer, useControlledReducer,        *)
(* callOnChangeProps).                                                     *)
(*                                                                         *)
(* Encoding of JavaScript values:                                          *)
(*   - an object with optional keys (a patch, the props) is a function     *)
(*     whose DOMAIN is the set of keys that are present (own properties    *)
(*     for a patch, keys whose value is not undefined for the props);      *)
(*   - items are integers, itemToString turns them into strings;           *)
(*   - null is the integer Null, undefined (as a callback argument) is     *)
(*     the integer Undefined.                                              *)
(***************************************************************************)
EXTENDS Integers, Sequences, FiniteSets, TLC

(* ------------------------------ bounds --------------------------------- *)

\* number of items the render function registers through getItemProps
NumItems == 2
\* largest index handed to setHighlightedIndex
MaxHighlight == 7
\* the index the "clamp" stateReducer cuts a proposed highlight down to
ClampIndex == 4
\* number of dispatches React may batch into one render of a hook
MaxBatch == 1
\* largest number of items a list that varies in length has
MaxItems == 3

(* --------------------------- JavaScript values -------------------------- *)

Null == -9
Undefined == -8

EmptyObject == [k \in {} |-> TRUE]

StateKeys == {"highlightedIndex", "inputValue", "isOpen", "selectedItem"}

\* this.items after a render: the item registered at index i
items == [i \in 0..(NumItems - 1) |-> 10 + i]

ItemValues == {items[i] : i \in DOMAIN items}

Has(obj, key) == key \in DOMAIN obj

\* {...a, ...b}: b's keys win
Spread(a, b) == b @@ a

\* the part of obj under the keys of keep
Pick(obj, keep) == [k \in (DOMAIN obj) \cap keep |-> obj[k]]

\* list.indexOf(item)
indexOf(list, item) ==
  IF \E i \in 1..Len(list) : list[i] = item
  THEN (CHOOSE i \in 1..Len(list) :
          list[i] = item /\ \A j \in 1..Len(list) : list[j] = item => i <= j)
       - 1
  ELSE -1

\* defaultProps.itemToString
itemToString(i) == IF i = Null \/ i = Undefined THEN "" ELSE ToString(i)

\* defaultProps of the component
defaultHighlightedIndex == Null
defaultIsOpen == FALSE

\* stateChangeTypes.unknown
unknown == "unknown"

(* --------------------------- caller's inputs ---------------------------- *)

\* the values a caller passes for a controlled prop
PropValues ==
  [isOpen |-> {TRUE, FALSE},
   highlightedIndex |-> {0},
   inputValue |-> {"p"},
   selectedItem |-> {Null, 10}]

\* the prop key left undefined, or passed with one of its values
PropChoice(key) ==
  {EmptyObject} \cup {[k \in {key} |-> v] : v \in PropValues[key]}

\* the sets of props a caller controls: none, each one alone, the selection
\* with its text, and all four
ControlledSets ==
  {{}, {"isOpen"}, {"highlightedIndex"}, {"inputValue"}, {"selectedItem"},
   {"selectedItem", "inputValue"}, StateKeys}

\* every props object: a controlled prop is a key that is present
PropsChoices ==
  {p \in {a @@ b @@ c @@ d : a \in PropChoice("isOpen"),
                             b \in PropChoice("highlightedIndex"),
                             c \in PropChoice("inputValue"),
                             d \in PropChoice("selectedItem")} :
     DOMAIN p \in ControlledSets}

InputTexts == {"x", "10"}

\* the stateReducer the caller supplies
ReducerKinds == {"default", "clamp", "rewrite", "remove"}

\* the item and the text the "rewrite" stateReducer puts in place
RewriteItem == items[NumItems - 1]
RewriteText == "ovr"

VARIABLES
  session,      \* "Downshift" (class component) or "hooks"
  state,        \* this.state of the component
  props,        \* the controlled props of the component
  reducerKind,  \* which props.stateReducer the caller supplied
  call,         \* the last call: [op, cb] (cb: a completion callback was passed)
  trace,        \* the transitions of the last call, see TransitionOf
  log,          \* the notifications of the last call, in firing order
  view,         \* the state handed to the render function after the last call
  prevStateRef, \* hooks: prevStateRef.current
  actionRef,    \* hooks: actionRef.current
  batch,        \* hooks: dispatches reduced since the notification effect ran
  opened,       \* hooks given an initialHighlightedIndex: the menu has been
                \* open since the mount
  registered,   \* this.items: the items getItemProps has registered since the
                \* last render began, in the order of their indexes
  itemCount,    \* this.itemCount: the count setItemCount has set, or Null
  mounted,      \* componentDidMount has run and componentWillUnmount has not
  isMouseDown,  \* this.isMouseDown (the tracker's ref in the hooks)
  isTouchMove,  \* this.isTouchMove (the tracker's ref in the hooks)
  avoidScrolling, \* this.avoidScrolling
  timeoutIds,   \* this.timeoutIds: the pending timers, by what scheduled them
  added,        \* addEventListener calls on the environment, per event
  removed,      \* removeEventListener calls on the environment, per event
  statusTimers, \* live timers of the debounced updateStatus, each with the
                \* state whose update set it
  published     \* the calls of setA11yStatus, oldest first

vars == <<session, state, props, reducerKind, call, trace, log, view,
          prevStateRef, actionRef, batch, opened, registered, itemCount,
          mounted, isMouseDown,
          isTouchMove, avoidScrolling, timeoutIds, added, removed, statusTimers, published>>

hookVars == <<prevStateRef, actionRef, batch, opened>>

\* what a render cycle and setItemCount write
cycleVars == <<registered, itemCount>>

\* what the environment-facing side of a session keeps, the debounce aside
envVars == <<mounted, isMouseDown, isTouchMove, avoidScrolling, timeoutIds,
             added, removed, published>>

(* ------------------------ controlled / uncontrolled --------------------- *)

\* utils.isControlledProp: the prop is not undefined
isControlledProp(p, key) == Has(p, key)

\* utils.getState: field by field, the prop when controlled, else the state
getState(st, p) ==
  [k \in DOMAIN st |-> IF isControlledProp(p, k) THEN p[k] ELSE st[k]]

\* utils.pickState: the state keys (and the type) of an object
pickState(obj) == Pick(obj, StateKeys \cup {"type"})

\* mutant: getState returns this.state and forgets the props
Downshift_getState_Unmerged(st, p) == st

\* Downshift.getState(stateToMerge): the state merged with this.props
Downshift_getState(st, p) == getState(st, p)

(* ----------------------------- stateReducer ----------------------------- *)

\* props.stateReducer(state, changes). "default" is defaultProps.stateReducer;
\* the others are overrides a caller may supply:
\*   clamp:   keeps isOpen true and cuts a highlight above ClampIndex to it
\*   rewrite: replaces a proposed selectedItem and a proposed inputValue
\*   remove:  drops selectedItem and inputValue from the patch
stateReducer(kind, st, changes) ==
  CASE kind = "default" -> changes
    [] kind = "clamp" ->
         [k \in (DOMAIN changes) \cup {"isOpen"} |->
            IF k = "isOpen" THEN TRUE
            ELSE IF k = "highlightedIndex" /\ changes[k] > ClampIndex
                 THEN ClampIndex
                 ELSE changes[k]]
    [] kind = "rewrite" ->
         [k \in DOMAIN changes |->
            IF k = "selectedItem" THEN RewriteItem
            ELSE IF k = "inputValue" THEN RewriteText
            ELSE changes[k]]
    [] kind = "remove" ->
         Pick(changes, (DOMAIN changes) \ {"selectedItem", "inputValue"})

(* --------------------------- internalSetState --------------------------- *)

\* the call of props.onInputValueChange (lines 328-333 and 387-395)
onInputValueChangeCall(obj) ==
  IF Has(obj, "inputValue")
  THEN <<[n |-> "onInputValueChange", v |-> obj.inputValue]>>
  ELSE <<>>

\* mutant: every patch that carries selectedItem counts as a changed selection
onChangeArgOf_NoIdentityCheck(s, newStateToSet) ==
  IF Has(newStateToSet, "selectedItem")
  THEN newStateToSet.selectedItem
  ELSE Undefined

\* the identity check that decides props.onChange: undefined means no call
onChangeArgOf(s, newStateToSet) ==
  IF Has(newStateToSet, "selectedItem")
     /\ newStateToSet.selectedItem # s.selectedItem
  THEN newStateToSet.selectedItem
  ELSE Undefined

\* mutant: onStateChangeArg takes every key of the patch, changed or not
onStateChangeArgOf_WholePatch(s, newStateToSet) == newStateToSet

\* onStateChangeArg after the forEach: the keys of the patch whose value is
\* not the one of the merged state (the type always is one)
onStateChangeArgOf(s, newStateToSet) ==
  Pick(newStateToSet,
       {k \in DOMAIN newStateToSet : k = "type" \/ s[k] # newStateToSet[k]})

\* mutant: the engine commits its own proposal, not the stateReducer's patch
nextStateOf_Proposal(p, stateToSet, newStateToSet) ==
  Pick(stateToSet,
       {k \in (DOMAIN stateToSet) \ {"type"} : ~isControlledProp(p, k)})

\* mutant: a controlled key in the patch makes the updater write nothing
nextStateOf_ControlledSuppresses(p, stateToSet, newStateToSet) ==
  IF \E k \in DOMAIN newStateToSet : isControlledProp(p, k)
  THEN EmptyObject
  ELSE Pick(newStateToSet, (DOMAIN newStateToSet) \ {"type"})

\* nextState after the forEach: the keys of the patch that are not
\* controlled, the type left out
nextStateOf(p, stateToSet, newStateToSet) ==
  Pick(newStateToSet,
       {k \in (DOMAIN newStateToSet) \ {"type"} : ~isControlledProp(p, k)})

\* internalSetState up to the end of the setState updater. stateToSet is the
\* patch; when isFn, the caller passed a function and stateToSet is what it
\* returned for the merged state.
internalSetState(st, p, isFn, stateToSet) ==
  LET s == Downshift_getState(st, p)
      reduced == stateReducer(reducerKind, s, stateToSet)
      newStateToSet ==
        IF Has(reduced, "type") THEN reduced
        ELSE Spread(reduced, [type |-> unknown])
      nextState == nextStateOf(p, stateToSet, newStateToSet)
  IN [state |-> Spread(st, nextState),
      pre |-> s,
      isFn |-> isFn,
      stateToSet |-> stateToSet,
      patch |-> newStateToSet,
      nextState |-> nextState,
      early |-> IF isFn THEN onInputValueChangeCall(newStateToSet)
                ELSE onInputValueChangeCall(stateToSet),
      isItemSelected |-> Has(newStateToSet, "selectedItem"),
      onChangeArg |-> onChangeArgOf(s, newStateToSet),
      onStateChangeArg |-> onStateChangeArgOf(s, newStateToSet)]

\* mutant: onUserAction is called before the other callbacks
setStateCallback_UserActionFirst(r, cbCalls) ==
  cbCalls
  \o <<[n |-> "onUserAction", changes |-> r.onStateChangeArg]>>
  \o (IF Cardinality(DOMAIN r.onStateChangeArg) > 1
      THEN <<[n |-> "onStateChange", changes |-> r.onStateChangeArg]>>
      ELSE <<>>)
  \o (IF r.isItemSelected
      THEN <<[n |-> "onSelect",
              item |-> IF ~r.isFn /\ Has(r.stateToSet, "selectedItem")
                       THEN r.stateToSet.selectedItem
                       ELSE Undefined]>>
      ELSE <<>>)
  \o (IF r.onChangeArg # Undefined
      THEN <<[n |-> "onChange", item |-> r.onChangeArg]>>
      ELSE <<>>)

\* mutant: onUserAction is called only when onStateChange is
setStateCallback_UserActionOnChange(r, cbCalls) ==
  cbCalls
  \o (IF Cardinality(DOMAIN r.onStateChangeArg) > 1
      THEN <<[n |-> "onStateChange", changes |-> r.onStateChangeArg]>>
      ELSE <<>>)
  \o (IF r.isItemSelected
      THEN <<[n |-> "onSelect",
              item |-> IF ~r.isFn /\ Has(r.stateToSet, "selectedItem")
                       THEN r.stateToSet.selectedItem
                       ELSE Undefined]>>
      ELSE <<>>)
  \o (IF r.onChangeArg # Undefined
      THEN <<[n |-> "onChange", item |-> r.onChangeArg]>>
      ELSE <<>>)
  \o (IF Cardinality(DOMAIN r.onStateChangeArg) > 1
      THEN <<[n |-> "onUserAction", changes |-> r.onStateChangeArg]>>
      ELSE <<>>)

\* the setState callback of internalSetState; r is the transition and
\* cbCalls what cbToCb(cb)() does
setStateCallback(r, cbCalls) ==
  cbCalls
  \o (IF Cardinality(DOMAIN r.onStateChangeArg) > 1
      THEN <<[n |-> "onStateChange", changes |-> r.onStateChangeArg]>>
      ELSE <<>>)
  \o (IF r.isItemSelected
      THEN <<[n |-> "onSelect",
              item |-> IF ~r.isFn /\ Has(r.stateToSet, "selectedItem")
                       THEN r.stateToSet.selectedItem
                       ELSE Undefined]>>
      ELSE <<>>)
  \o (IF r.onChangeArg # Undefined
      THEN <<[n |-> "onChange", item |-> r.onChangeArg]>>
      ELSE <<>>)
  \o <<[n |-> "onUserAction", changes |-> r.onStateChangeArg]>>

\* cbToCb(cb)(): the completion callback, when one was passed
cbToCb(cb) == IF cb THEN <<[n |-> "cb"]>> ELSE <<>>

\* the notifications of one transition, in firing order
Notifications(r, cbCalls) == r.early \o setStateCallback(r, cbCalls)

\* marks every notification with the ordinal of its transition in the call
Tag(notes, t) == [i \in 1..Len(notes) |-> Spread(notes[i], [t |-> t])]

\* what the trace keeps of a transition
TransitionOf(r) ==
  [pre |-> r.pre, isFn |-> r.isFn, stateToSet |-> r.stateToSet,
   patch |-> r.patch, post |-> r.state]

\* utils.debounce, the wrapper: a call clears the pending timer and sets a
\* new one that will call the function with the arguments of this call;
\* timers are the live timers of the debounced function, oldest first, each
\* with its arguments
debounceCall(timers, args) == <<args>>

\* utils.debounce, cancel: clears the pending timer
debounceCancel(timers) == <<>>

\* mutant: updateStatus is not debounced, every call sets its own timer
updateStatus_NotDebounced(timers, args) == Append(timers, args)

\* updateStatus(), the debounced function of the component; args stands for
\* the state whose update made the call
updateStatus(timers, args) == debounceCall(timers, args)

\* updateA11yStatus(getA11yMessage, document), the debounced function of the
\* hooks; args stands for the state getA11yMessage closes over
updateA11yStatus(timers, args) == debounceCall(timers, args)

\* one transition through internalSetState and the update that follows it:
\* componentDidUpdate calls the debounced updateStatus. c is what is kept of
\* the call
TransitCall(c, isFn, stateToSet) ==
  LET r == internalSetState(state, props, isFn, stateToSet)
  IN /\ state' = r.state
     /\ call' = c
     /\ trace' = <<TransitionOf(r)>>
     /\ log' = Tag(Notifications(r, cbToCb(c.cb)), 1)
     /\ view' = Downshift_getState(r.state, props)
     /\ statusTimers' = updateStatus(statusTimers, view')
     /\ UNCHANGED <<session, cycleVars, props, reducerKind, hookVars>>

\* the same, for a call of which the operation and the callback are kept
Transit(op, cb, isFn, stateToSet) ==
  TransitCall([op |-> op, cb |-> cb], isFn, stateToSet)

\* a handler that returns before it reaches internalSetState
Skip(op, cb) ==
  /\ call' = [op |-> op, cb |-> cb]
  /\ trace' = <<>>
  /\ log' = <<>>
  /\ UNCHANGED <<session, cycleVars, state, props, reducerKind, view, hookVars,
                 statusTimers>>

\* a call that makes one transition through internalSetState
OneTransition(op, cb, isFn, stateToSet) ==
  /\ Transit(op, cb, isFn, stateToSet)
  /\ UNCHANGED envVars

\* a call that returns before it reaches internalSetState
NoTransition(op, cb) ==
  /\ Skip(op, cb)
  /\ UNCHANGED envVars

(* ------------------------- the component's actions ---------------------- *)

\* Every method and handler below belongs to a mounted Downshift component
\* (session = "Downshift"); the hooks have their own dispatch further down.

\* mutant: selectItem leaves isOpen and highlightedIndex out of its patch
selectItemPatch_KeepsMenu(item, otherStateToSet) ==
  Spread([selectedItem |-> item, inputValue |-> itemToString(item)],
         pickState(otherStateToSet))

\* the patch selectItem hands to internalSetState
selectItemPatch(item, otherStateToSet) ==
  Spread([isOpen |-> defaultIsOpen,
          highlightedIndex |-> defaultHighlightedIndex,
          selectedItem |-> item,
          inputValue |-> itemToString(item)],
         pickState(otherStateToSet))

\* selectItem(item, otherStateToSet, cb)
selectItem(op, item, otherStateToSet, cb) ==
  /\ session = "Downshift" /\ mounted
  /\ OneTransition(op, cb, FALSE, selectItemPatch(item, otherStateToSet))

\* selectItemAtIndex(itemIndex, otherStateToSet, cb)
selectItemAtIndex(op, itemIndex, otherStateToSet, cb) ==
  /\ session = "Downshift" /\ mounted
  /\ IF itemIndex \in DOMAIN items
     THEN selectItem(op, items[itemIndex], otherStateToSet, cb)
     ELSE NoTransition(op, cb)

\* selectHighlightedItem(otherStateToSet, cb)
selectHighlightedItem(op, otherStateToSet, cb) ==
  /\ session = "Downshift" /\ mounted
  /\ selectItemAtIndex(op, Downshift_getState(state, props).highlightedIndex,
                       otherStateToSet, cb)

\* clearSelection(cb)
clearSelection(cb) ==
  /\ session = "Downshift" /\ mounted
  /\ OneTransition("clearSelection", cb, FALSE,
                   [selectedItem |-> Null,
                    inputValue |-> "",
                    highlightedIndex |-> defaultHighlightedIndex,
                    isOpen |-> defaultIsOpen])

\* mutant: reset does not compute inputValue again
resetPatch_KeepsInput(s, otherStateToSet) ==
  Spread([isOpen |-> defaultIsOpen,
          highlightedIndex |-> defaultHighlightedIndex],
         pickState(otherStateToSet))

\* what the function reset passes to internalSetState returns for state s
resetPatch(s, otherStateToSet) ==
  Spread([isOpen |-> defaultIsOpen,
          highlightedIndex |-> defaultHighlightedIndex,
          inputValue |-> itemToString(s.selectedItem)],
         pickState(otherStateToSet))

\* reset(otherStateToSet, cb)
reset(op, otherStateToSet, cb) ==
  /\ session = "Downshift" /\ mounted
  /\ OneTransition(op, cb, TRUE,
                   resetPatch(Downshift_getState(state, props),
                              otherStateToSet))

\* openMenu(cb)
openMenu(cb) ==
  /\ session = "Downshift" /\ mounted
  /\ OneTransition("openMenu", cb, FALSE, [isOpen |-> TRUE])

\* closeMenu(cb)
closeMenu(cb) ==
  /\ session = "Downshift" /\ mounted
  /\ OneTransition("closeMenu", cb, FALSE, [isOpen |-> FALSE])

\* setHighlightedIndex(highlightedIndex, otherStateToSet)
setHighlightedIndex(op, highlightedIndex, otherStateToSet) ==
  /\ session = "Downshift" /\ mounted
  /\ OneTransition(op, FALSE, FALSE,
                   Spread([highlightedIndex |-> highlightedIndex],
                          pickState(otherStateToSet)))

\* mutant: inputHandleChange leaves the highlight where it is
inputChangePatch_KeepsHighlight(text) ==
  [type |-> "changeInput", isOpen |-> TRUE, inputValue |-> text]

\* the patch inputHandleChange hands to internalSetState
inputChangePatch(text) ==
  [type |-> "changeInput",
   isOpen |-> TRUE,
   inputValue |-> text,
   highlightedIndex |-> defaultHighlightedIndex]

\* inputHandleChange(event): event.target.value is text
inputHandleChange(text) ==
  /\ session = "Downshift" /\ mounted
  /\ OneTransition("inputHandleChange", FALSE, FALSE, inputChangePatch(text))

\* keyDownHandlers.Escape
keyDownEscape ==
  /\ session = "Downshift" /\ mounted
  /\ reset("keyDownEscape",
           Spread([type |-> "keyDownEscape"],
                  IF ~state.isOpen
                  THEN [selectedItem |-> Null, inputValue |-> ""]
                  ELSE EmptyObject),
           FALSE)

\* the indexes of the items rendered with the disabled attribute: the render
\* function's choice when the props carry one, the last item otherwise
disabledIndexes ==
  IF Has(props, "disabledIndexes") THEN props.disabledIndexes
  ELSE {NumItems - 1}

\* isItemDisabled(_item, index): the item's node has the disabled attribute
isItemDisabled(index) == index \in disabledIndexes

\* keyDownHandlers.Enter; composing: event.which is 229
keyDownEnter(composing) ==
  LET s == Downshift_getState(state, props)
  IN /\ session = "Downshift" /\ mounted
     /\ IF composing
        THEN NoTransition("keyDownEnter229", FALSE)
        ELSE IF /\ s.isOpen /\ s.highlightedIndex # Null
                /\ s.highlightedIndex \in DOMAIN items
                /\ ~isItemDisabled(s.highlightedIndex)
             THEN selectHighlightedItem("keyDownEnter",
                                        [type |-> "keyDownEnter"], FALSE)
             ELSE NoTransition("keyDownEnter", FALSE)

\* the click handler getItemProps gives the item at index; a disabled item
\* gets none
clickItem(index) ==
  /\ session = "Downshift" /\ mounted
  /\ ~isItemDisabled(index)
  /\ selectItemAtIndex("clickItem", index, [type |-> "clickItem"], FALSE)

\* mutant: getItemCount looks at the itemCount prop before this.itemCount
getItemCount_PropFirst ==
  IF Has(props, "itemCount") THEN props.itemCount
  ELSE IF itemCount # Null THEN itemCount
  ELSE Len(registered)

\* getItemCount(): this.itemCount when it is set, else props.itemCount when the
\* prop is given, else this.items.length
getItemCount ==
  IF itemCount # Null THEN itemCount
  ELSE IF Has(props, "itemCount") THEN props.itemCount
  ELSE Len(registered)

(* ------------------------------ navigation ------------------------------ *)

\* the first index that is not disabled on the walk from index c in direction
\* dir (1 or -1) over n items, wrapping when the walk is circular, and the
\* number of indexes looked at; -1 once all n indexes were looked at or the
\* walk left the list
RECURSIVE walkFrom(_, _, _, _, _, _)
walkFrom(c, dir, n, disabled, circular, visited) ==
  IF visited >= n \/ c \notin 0..(n - 1)
  THEN [index |-> -1, visited |-> visited]
  ELSE IF c \notin disabled THEN [index |-> c, visited |-> visited + 1]
  ELSE walkFrom(IF circular THEN (c + dir + n) % n ELSE c + dir, dir, n,
                disabled, circular, visited + 1)

\* where a move of offset starts from: the current index when it is one of the
\* n items, else the position before the first item for a move forwards and
\* the position after the last for a move backwards
startOfMove(start, offset, n) ==
  IF start \in 0..(n - 1) THEN start ELSE IF offset > 0 THEN -1 ELSE n

\* the index a move of offset from start first looks at: past an end of the
\* list, the other end when the move is circular and that end when it is not
firstOfMove(start, offset, n, circular) ==
  LET c == startOfMove(start, offset, n) + offset
  IN IF c \in 0..(n - 1) THEN c
     ELSE IF circular THEN ((c % n) + n) % n
     ELSE IF c < 0 THEN 0 ELSE n - 1

\* the move of utils.getHighlightedIndex with the indexes it looked at counted
moveWalk(start, offset, n, disabled, circular) ==
  IF n <= 0 THEN [index |-> -1, visited |-> 0]
  ELSE walkFrom(firstOfMove(start, offset, n, circular),
                IF offset > 0 THEN 1 ELSE -1, n, disabled, circular, 0)

\* utils.getHighlightedIndex(start, offset, {length: n}, isItemDisabled,
\* circular)
getHighlightedIndex(start, offset, n, disabled, circular) ==
  moveWalk(start, offset, n, disabled, circular).index

\* utils.getNonDisabledIndex(start, backwards, {length: n}, isItemDisabled)
getNonDisabledIndex(start, backwards, n, disabled) ==
  LET ahead == IF backwards
               THEN {i \in 0..start : i \notin disabled}
               ELSE {i \in start..(n - 1) : i \notin disabled}
  IN IF ahead = {} THEN -1
     ELSE IF backwards
          THEN CHOOSE i \in ahead : \A j \in ahead : j <= i
          ELSE CHOOSE i \in ahead : \A j \in ahead : i <= j

\* mutant: moveHighlightedIndex does not ask for a circular move
moveHighlightedIndex_NotCircular(op, amount, otherStateToSet) ==
  /\ session = "Downshift" /\ mounted
  /\ IF getItemCount > 0
     THEN setHighlightedIndex(op,
            getHighlightedIndex(Downshift_getState(state, props).highlightedIndex,
                                amount, getItemCount, disabledIndexes, FALSE),
            otherStateToSet)
     ELSE NoTransition(op, FALSE)

\* mutant: moveHighlightedIndex leaves the highlight alone when the move finds
\* no item
moveHighlightedIndex_KeepsWhenNoneFound(op, amount, otherStateToSet) ==
  LET next == getHighlightedIndex(
                Downshift_getState(state, props).highlightedIndex,
                amount, getItemCount, disabledIndexes, TRUE)
  IN /\ session = "Downshift" /\ mounted
     /\ IF getItemCount > 0 /\ next # -1
        THEN setHighlightedIndex(op, next, otherStateToSet)
        ELSE NoTransition(op, FALSE)

\* moveHighlightedIndex(amount, otherStateToSet)
moveHighlightedIndex(op, amount, otherStateToSet) ==
  /\ session = "Downshift" /\ mounted
  /\ IF getItemCount > 0
     THEN setHighlightedIndex(op,
            getHighlightedIndex(Downshift_getState(state, props).highlightedIndex,
                                amount, getItemCount, disabledIndexes, TRUE),
            otherStateToSet)
     ELSE NoTransition(op, FALSE)

\* mutant: an arrow key on a closed menu opens it and leaves the highlight
arrowOpenTransit_OnlyOpens(op, type, amount) ==
  TransitCall([op |-> op, cb |-> FALSE], FALSE,
              [isOpen |-> TRUE, type |-> type])

\* an arrow key on a closed menu: internalSetState({isOpen: true, type}) and,
\* in its callback, the highlight moved by amount when there are items
arrowOpenTransit(op, type, amount) ==
  LET r1 == internalSetState(state, props, FALSE,
                             [isOpen |-> TRUE, type |-> type])
      s1 == Downshift_getState(r1.state, props)
      again == getItemCount > 0
      r2 == internalSetState(r1.state, props, FALSE,
              [highlightedIndex |->
                 getHighlightedIndex(s1.highlightedIndex, amount, getItemCount,
                                     disabledIndexes, TRUE),
               type |-> type])
  IN /\ call' = [op |-> op, cb |-> FALSE]
     /\ state' = IF again THEN r2.state ELSE r1.state
     /\ trace' = IF again THEN <<TransitionOf(r1), TransitionOf(r2)>>
                          ELSE <<TransitionOf(r1)>>
     /\ log' = Tag(Notifications(r1, <<>>), 1)
               \o (IF again THEN Tag(Notifications(r2, <<>>), 2) ELSE <<>>)
     /\ view' = Downshift_getState(state', props)
     /\ statusTimers' = updateStatus(statusTimers, view')
     /\ UNCHANGED <<session, cycleVars, props, reducerKind, hookVars>>

\* mutant: ArrowDown moves by one whether or not the shift key is held
keyDownArrowDown_IgnoresShift(shiftKey) ==
  /\ session = "Downshift" /\ mounted
  /\ IF Downshift_getState(state, props).isOpen
     THEN moveHighlightedIndex(IF shiftKey THEN "keyDownShiftArrowDown"
                                           ELSE "keyDownArrowDown",
                               1, [type |-> "keyDownArrowDown"])
     ELSE /\ arrowOpenTransit("keyDownArrowDown", "keyDownArrowDown", 1)
          /\ UNCHANGED envVars

\* keyDownHandlers.ArrowDown; shiftKey: event.shiftKey
keyDownArrowDown(shiftKey) ==
  /\ session = "Downshift" /\ mounted
  /\ IF Downshift_getState(state, props).isOpen
     THEN moveHighlightedIndex(IF shiftKey THEN "keyDownShiftArrowDown"
                                           ELSE "keyDownArrowDown",
                               IF shiftKey THEN 5 ELSE 1,
                               [type |-> "keyDownArrowDown"])
     ELSE /\ arrowOpenTransit("keyDownArrowDown", "keyDownArrowDown", 1)
          /\ UNCHANGED envVars

\* keyDownHandlers.ArrowUp; shiftKey: event.shiftKey
keyDownArrowUp(shiftKey) ==
  /\ session = "Downshift" /\ mounted
  /\ IF Downshift_getState(state, props).isOpen
     THEN moveHighlightedIndex(IF shiftKey THEN "keyDownShiftArrowUp"
                                           ELSE "keyDownArrowUp",
                               IF shiftKey THEN -5 ELSE -1,
                               [type |-> "keyDownArrowUp"])
     ELSE /\ arrowOpenTransit("keyDownArrowUp", "keyDownArrowUp", -1)
          /\ UNCHANGED envVars

\* inputKeyDownHandlers.Home
keyDownHome ==
  /\ session = "Downshift" /\ mounted
  /\ IF Downshift_getState(state, props).isOpen /\ getItemCount > 0
     THEN setHighlightedIndex("keyDownHome",
            getNonDisabledIndex(0, FALSE, getItemCount, disabledIndexes),
            [type |-> "keyDownHome"])
     ELSE NoTransition("keyDownHome", FALSE)

\* inputKeyDownHandlers.End
keyDownEnd ==
  /\ session = "Downshift" /\ mounted
  /\ IF Downshift_getState(state, props).isOpen /\ getItemCount > 0
     THEN setHighlightedIndex("keyDownEnd",
            getNonDisabledIndex(getItemCount - 1, TRUE, getItemCount,
                                disabledIndexes),
            [type |-> "keyDownEnd"])
     ELSE NoTransition("keyDownEnd", FALSE)

(* ----------------------------- render cycle ----------------------------- *)

\* a step of the render cycle or of the item count: it makes no transition
CycleStep(c) ==
  /\ call' = c
  /\ trace' = <<>>
  /\ log' = <<>>
  /\ UNCHANGED <<session, state, props, reducerKind, view, hookVars, envVars,
                 statusTimers>>

\* render(), up to the call of the children function: clearItems()
render ==
  /\ session = "Downshift" /\ mounted
  /\ registered' = <<>>
  /\ UNCHANGED itemCount
  /\ CycleStep([op |-> "render", cb |-> FALSE])

\* getItemProps({item}) in the children function, no index given: the item is
\* pushed and its index is this.items.indexOf(item)
getItemProps(item) ==
  /\ session = "Downshift" /\ mounted
  /\ Len(registered) < MaxItems
  /\ registered' = Append(registered, item)
  /\ UNCHANGED itemCount
  /\ CycleStep([op |-> "getItemProps", cb |-> FALSE, item |-> item,
                index |-> indexOf(Append(registered, item), item)])

\* getItemProps({item, index}): this.items[index] = item; the indexes the
\* array did not have before index are holes (undefined)
getItemPropsAt(index, item) ==
  /\ session = "Downshift" /\ mounted
  /\ registered' =
       [i \in 1..(IF index + 1 > Len(registered) THEN index + 1
                                                 ELSE Len(registered)) |->
          IF i = index + 1 THEN item
          ELSE IF i <= Len(registered) THEN registered[i] ELSE Undefined]
  /\ UNCHANGED itemCount
  /\ CycleStep([op |-> "getItemPropsAt", cb |-> FALSE, item |-> item,
                index |-> index])

\* setItemCount(count)
setItemCount(count) ==
  /\ session = "Downshift" /\ mounted
  /\ itemCount' = count
  /\ UNCHANGED registered
  /\ CycleStep([op |-> "setItemCount", cb |-> FALSE])

\* unsetItemCount()
unsetItemCount ==
  /\ session = "Downshift" /\ mounted
  /\ itemCount' = Null
  /\ UNCHANGED registered
  /\ CycleStep([op |-> "unsetItemCount", cb |-> FALSE])

\* mutant: toggleMenu leaves the highlight alone when it closes the menu
toggleMenuPatch_KeepsHighlight(s, otherStateToSet) ==
  Spread([isOpen |-> ~s.isOpen], pickState(otherStateToSet))

\* what the function toggleMenu passes to internalSetState returns for state s
toggleMenuPatch(s, otherStateToSet) ==
  Spread(Spread([isOpen |-> ~s.isOpen],
                IF s.isOpen
                THEN [highlightedIndex |-> defaultHighlightedIndex]
                ELSE EmptyObject),
         pickState(otherStateToSet))

\* the transitions of toggleMenu(otherStateToSet, cb): its setState callback
\* sets the highlight again when the menu is now open (a second transition,
\* which React runs after the callbacks of the first), then calls cb
toggleMenuTransit(op, otherStateToSet, cb) ==
  LET r1 == internalSetState(state, props, TRUE,
              toggleMenuPatch(Downshift_getState(state, props), otherStateToSet))
      s1 == Downshift_getState(r1.state, props)
      again == s1.isOpen /\ getItemCount > 0 /\ s1.highlightedIndex # Null
      r2 == internalSetState(r1.state, props, FALSE,
              Spread([highlightedIndex |-> s1.highlightedIndex],
                     pickState(otherStateToSet)))
  IN /\ call' = [op |-> op, cb |-> cb]
     /\ state' = IF again THEN r2.state ELSE r1.state
     /\ trace' = IF again THEN <<TransitionOf(r1), TransitionOf(r2)>>
                          ELSE <<TransitionOf(r1)>>
     /\ log' = Tag(Notifications(r1, cbToCb(cb)), 1)
               \o (IF again THEN Tag(Notifications(r2, <<>>), 2) ELSE <<>>)
     /\ view' = Downshift_getState(state', props)
     /\ statusTimers' = updateStatus(statusTimers, view')
     /\ UNCHANGED <<session, cycleVars, props, reducerKind, hookVars>>

\* toggleMenu(otherStateToSet, cb)
toggleMenu(op, otherStateToSet, cb) ==
  /\ session = "Downshift" /\ mounted
  /\ toggleMenuTransit(op, otherStateToSet, cb)
  /\ UNCHANGED envVars

\* the id of an item, for a caller's selectedItemChanged that compares items
\* by an id: two neighbouring items share theirs
itemId(item) == IF item = Null THEN Null ELSE item \div 2

\* mutant: selectedItemChanged reports a change for whatever pair of items
selectedItemChanged_Always(p, prevItem, item) == TRUE

\* props.selectedItemChanged(prevItem, item): defaultProps' (prevItem !==
\* item) unless the caller passes one that compares the ids of the items
selectedItemChanged(p, prevItem, item) ==
  IF Has(p, "selectedItemChanged")
  THEN itemId(prevItem) # itemId(item)
  ELSE prevItem # item

\* the caller renders the component again with another value for the
\* controlled prop key; componentDidUpdate follows the render, and follows
\* again the render its own transition causes, with the props as their own
\* previous props; the model follows it for one such round
componentDidUpdate(key, value) ==
  LET newProps == [props EXCEPT ![key] = value]
      patch == [type |-> "controlledPropUpdatedSelectedItem",
                inputValue |-> itemToString(newProps.selectedItem)]
      r == internalSetState(state, newProps, FALSE, patch)
      update == /\ isControlledProp(newProps, "selectedItem")
                /\ selectedItemChanged(newProps, props.selectedItem,
                                       newProps.selectedItem)
      again == /\ update
               /\ selectedItemChanged(newProps, newProps.selectedItem,
                                      newProps.selectedItem)
      r2 == internalSetState(r.state, newProps, FALSE, patch)
  IN /\ session = "Downshift" /\ mounted
     /\ isControlledProp(props, key)
     /\ value # props[key]
     /\ props' = newProps
     /\ call' = [op |-> "componentDidUpdate", cb |-> FALSE]
     /\ state' = IF again THEN r2.state ELSE IF update THEN r.state ELSE state
     /\ trace' = (IF update THEN <<TransitionOf(r)>> ELSE <<>>)
                 \o (IF again THEN <<TransitionOf(r2)>> ELSE <<>>)
     /\ log' = (IF update THEN Tag(Notifications(r, <<>>), 1) ELSE <<>>)
               \o (IF again THEN Tag(Notifications(r2, <<>>), 2) ELSE <<>>)
     /\ view' = Downshift_getState(state', newProps)
     /\ statusTimers' = updateStatus(statusTimers, view')
     /\ UNCHANGED <<session, cycleVars, reducerKind, hookVars, envVars>>

(* ------------------------------- the hooks ------------------------------ *)

\* dropdownDefaultStateValues
dropdownDefaultStateValues ==
  [highlightedIndex |-> -1, isOpen |-> FALSE, selectedItem |-> Null,
   inputValue |-> ""]

\* Object.keys(state) of a hook's state, in the order getInitialState builds it
hookStateKeys == <<"highlightedIndex", "isOpen", "selectedItem", "inputValue">>

\* JavaScript truthiness of an item
Truthy(item) == item # Null /\ item # Undefined /\ item # 0

\* the hooks' default itemToString
hookItemToString(item) == IF Truthy(item) THEN ToString(item) ELSE ""

\* capitalizeString, applied to a state key behind the prefix "default" or
\* "initial"
PropName(prefix, propKey) ==
  CASE propKey = "highlightedIndex" -> prefix \o "HighlightedIndex"
    [] propKey = "isOpen" -> prefix \o "IsOpen"
    [] propKey = "selectedItem" -> prefix \o "SelectedItem"
    [] propKey = "inputValue" -> prefix \o "InputValue"

\* getDefaultValue(props, propKey)
getDefaultValue(p, propKey) ==
  IF Has(p, PropName("default", propKey))
  THEN p[PropName("default", propKey)]
  ELSE dropdownDefaultStateValues[propKey]

\* getInitialValue(props, propKey)
getInitialValue(p, propKey) ==
  IF Has(p, propKey) THEN p[propKey]
  ELSE IF Has(p, PropName("initial", propKey))
       THEN p[PropName("initial", propKey)]
       ELSE getDefaultValue(p, propKey)

\* a list of n items for props.items, as the array of JavaScript: its
\* elements are at the indexes 0..n-1 of the sequence shifted by one
itemList(n) == [i \in 1..n |-> 9 + i]

\* props.items: the list the caller passes, the registered items otherwise
itemsOf(p) ==
  IF Has(p, "items") THEN p.items ELSE [i \in 1..NumItems |-> items[i - 1]]

\* getInitialState(props)
getInitialState(p) ==
  LET selectedItem == getInitialValue(p, "selectedItem")
      isOpen == getInitialValue(p, "isOpen")
      highlightedIndex == getInitialValue(p, "highlightedIndex")
      inputValue == getInitialValue(p, "inputValue")
  IN [highlightedIndex |->
        IF highlightedIndex < 0 /\ Truthy(selectedItem) /\ isOpen
        THEN indexOf(itemsOf(p), selectedItem)
        ELSE highlightedIndex,
      isOpen |-> isOpen,
      selectedItem |-> selectedItem,
      inputValue |-> inputValue]

\* mutant: getHighlightedIndexOnOpen looks at the selected item before the
\* defaultHighlightedIndex
getHighlightedIndexOnOpen_SelectedFirst(p, st, offset) ==
  IF Len(itemsOf(p)) = 0 THEN -1
  ELSE IF Has(p, "initialHighlightedIndex")
          /\ st.highlightedIndex = p.initialHighlightedIndex
       THEN p.initialHighlightedIndex
  ELSE IF Truthy(st.selectedItem) THEN indexOf(itemsOf(p), st.selectedItem)
  ELSE IF Has(p, "defaultHighlightedIndex") THEN p.defaultHighlightedIndex
  ELSE IF offset = 0 THEN -1
  ELSE IF offset < 0 THEN Len(itemsOf(p)) - 1 ELSE 0

\* getHighlightedIndexOnOpen(props, state, offset)
getHighlightedIndexOnOpen(p, st, offset) ==
  IF Len(itemsOf(p)) = 0 THEN -1
  ELSE IF Has(p, "initialHighlightedIndex")
          /\ st.highlightedIndex = p.initialHighlightedIndex
       THEN p.initialHighlightedIndex
  ELSE IF Has(p, "defaultHighlightedIndex") THEN p.defaultHighlightedIndex
  ELSE IF Truthy(st.selectedItem) THEN indexOf(itemsOf(p), st.selectedItem)
  ELSE IF offset = 0 THEN -1
  ELSE IF offset < 0 THEN Len(itemsOf(p)) - 1 ELSE 0

\* getChangesOnSelection(props, highlightedIndex, inputValue)
getChangesOnSelection(p, highlightedIndex, inputValue) ==
  LET list == itemsOf(p)
      shouldSelect == Len(list) # 0 /\ highlightedIndex >= 0
      item == IF highlightedIndex \in 0..(Len(list) - 1)
              THEN list[highlightedIndex + 1] ELSE Undefined
  IN IF shouldSelect
     THEN Spread([selectedItem |-> item,
                  isOpen |-> getDefaultValue(p, "isOpen"),
                  highlightedIndex |-> getDefaultValue(p, "highlightedIndex")],
                 IF inputValue
                 THEN [inputValue |-> hookItemToString(item)]
                 ELSE EmptyObject)
     ELSE [isOpen |-> FALSE, highlightedIndex |-> -1]

\* the reducer of a dropdown hook: the changes it proposes for an action,
\* as the whole next state
dropdownReducer(st, action) ==
  LET p == action.props
      changes ==
        CASE action.type = "FunctionToggleMenu" ->
               [isOpen |-> ~st.isOpen,
                highlightedIndex |->
                  IF st.isOpen THEN -1 ELSE getHighlightedIndexOnOpen(p, st, 0)]
          [] action.type = "FunctionOpenMenu" ->
               [isOpen |-> TRUE,
                highlightedIndex |-> getHighlightedIndexOnOpen(p, st, 0)]
          [] action.type = "FunctionCloseMenu" -> [isOpen |-> FALSE]
          [] action.type = "FunctionSetHighlightedIndex" ->
               [highlightedIndex |-> action.highlightedIndex]
          [] action.type = "FunctionSelectItem" ->
               [selectedItem |-> action.selectedItem,
                inputValue |-> hookItemToString(action.selectedItem)]
          [] action.type = "InputChange" ->
               [isOpen |-> TRUE,
                highlightedIndex |-> getDefaultValue(p, "highlightedIndex"),
                inputValue |-> action.inputValue]
          [] action.type = "InputKeyDownEnter" ->
               getChangesOnSelection(p, st.highlightedIndex, TRUE)
          [] action.type = "FunctionReset" ->
               [highlightedIndex |-> getDefaultValue(p, "highlightedIndex"),
                isOpen |-> getDefaultValue(p, "isOpen"),
                selectedItem |-> getDefaultValue(p, "selectedItem"),
                inputValue |-> getDefaultValue(p, "inputValue")]
  IN Spread(st, changes)

\* props.stateReducer(state, actionAndChanges) of a hook. "default" is the
\* hooks' stateReducer; the others are overrides a caller may supply, the
\* counterparts of the component's
hookStateReducer(kind, st, actionAndChanges) ==
  LET changes == actionAndChanges.changes
  IN CASE kind = "default" -> changes
       [] kind = "clamp" ->
            [changes EXCEPT
               !.isOpen = TRUE,
               !.highlightedIndex = IF @ > ClampIndex THEN ClampIndex ELSE @]
       [] kind = "rewrite" ->
            [changes EXCEPT
               !.selectedItem = IF @ # st.selectedItem THEN RewriteItem ELSE @,
               !.inputValue = IF @ # st.inputValue THEN RewriteText ELSE @]
       [] kind = "remove" ->
            [changes EXCEPT
               !.selectedItem = st.selectedItem,
               !.inputValue = st.inputValue]

\* enhancedReducer(state, action) of useEnhancedReducer
enhancedReducer(st, action) ==
  LET s == getState(st, action.props)
      changes == dropdownReducer(s, action)
      newState ==
        hookStateReducer(reducerKind, s, Spread(action, [changes |-> changes]))
  IN [pre |-> s, changes |-> changes, newState |-> newState]

\* invokeOnChangeHandler(key, action, state, newState)
invokeOnChangeHandler(key, action, st, newState) ==
  IF /\ Has(newState, key)
     /\ key = "selectedItem" => newState[key] # Undefined
     /\ newState[key] # st[key]
  THEN <<[n |-> PropName("on", key) \o "Change", key |-> key,
          type |-> action.type, newState |-> newState]>>
  ELSE <<>>

RECURSIVE invokeAll(_, _, _, _)
\* the forEach of callOnChangeProps over the keys from position i on
invokeAll(i, action, st, newState) ==
  IF i > Len(hookStateKeys) THEN <<>>
  ELSE invokeOnChangeHandler(hookStateKeys[i], action, st, newState)
       \o invokeAll(i + 1, action, st, newState)

\* callOnChangeProps(action, state, newState)
callOnChangeProps(action, st, newState) ==
  LET changes == Pick(newState, {k \in DOMAIN st : newState[k] # st[k]})
  IN invokeAll(1, action, st, newState)
     \o (IF DOMAIN changes # {}
         THEN <<[n |-> "onStateChange",
                 changes |-> Spread([type |-> action.type], changes)]>>
         ELSE <<>>)

\* useControlledReducer: the state a hook returns
useControlledReducer(st, p) == getState(st, p)

\* the actions that open a closed menu
OpenActions == {"FunctionOpenMenu", "FunctionToggleMenu"}

\* dispatchWithProps(action): React runs enhancedReducer
dispatch(action) ==
  LET a == Spread([props |-> props], action)
      r == enhancedReducer(state, a)
  IN /\ session = "hooks"
     /\ batch < MaxBatch
     /\ state' = r.newState
     /\ actionRef' = a
     /\ batch' = batch + 1
     /\ call' = [op |-> action.type, cb |-> FALSE]
     /\ trace' = <<[pre |-> r.pre, isFn |-> FALSE, stateToSet |-> r.changes,
                    patch |-> r.newState, post |-> r.newState]>>
     /\ log' = <<>>
     /\ view' = useControlledReducer(r.newState, props)
     /\ opened' = (opened \/ (/\ Has(props, "initialHighlightedIndex")
                               /\ action.type \in OpenActions
                               /\ ~r.pre.isOpen))
     /\ UNCHANGED <<session, cycleVars, props, reducerKind, prevStateRef, envVars,
                    statusTimers>>

\* the action of a type, with the payload the model gives it
ActionOf(type) ==
  CASE type = "FunctionSelectItem" -> [type |-> type, selectedItem |-> items[0]]
    [] type = "FunctionSetHighlightedIndex" ->
         [type |-> type, highlightedIndex |-> 1]
    [] OTHER -> [type |-> type]

\* an event handler dispatches two actions in a row: React runs
\* enhancedReducer for each, renders once and runs the effect once
dispatchBatch(first, second) ==
  LET a1 == Spread([props |-> props], ActionOf(first))
      a2 == Spread([props |-> props], ActionOf(second))
      r1 == enhancedReducer(state, a1)
      r2 == enhancedReducer(r1.newState, a2)
  IN /\ session = "hooks"
     /\ batch = 0
     /\ state' = r2.newState
     /\ actionRef' = a2
     /\ batch' = 2
     /\ call' = [op |-> "batch", cb |-> FALSE]
     /\ trace' = <<[pre |-> r1.pre, isFn |-> FALSE, stateToSet |-> r1.changes,
                    patch |-> Spread(r1.newState, [type |-> first]),
                    post |-> r1.newState],
                   [pre |-> r2.pre, isFn |-> FALSE, stateToSet |-> r2.changes,
                    patch |-> Spread(r2.newState, [type |-> second]),
                    post |-> r2.newState]>>
     /\ log' = <<>>
     /\ view' = useControlledReducer(r2.newState, props)
     /\ opened' = (opened \/ (/\ Has(props, "initialHighlightedIndex")
                               /\ \/ first \in OpenActions /\ ~r1.pre.isOpen
                                  \/ second \in OpenActions /\ ~r2.pre.isOpen))
     /\ UNCHANGED <<session, cycleVars, props, reducerKind, prevStateRef,
                    envVars, statusTimers>>

\* the caller renders the hook again with a list of n items
rerenderItems(n) ==
  /\ session = "hooks"
  /\ Has(props, "items")
  /\ n # Len(props.items)
  /\ props' = [props EXCEPT !.items = itemList(n)]
  /\ view' = useControlledReducer(state, props')
  /\ call' = [op |-> "render", cb |-> FALSE]
  /\ trace' = <<>>
  /\ log' = <<>>
  /\ UNCHANGED <<session, cycleVars, state, reducerKind, hookVars, envVars, statusTimers>>

\* the useEffect of useEnhancedReducer, after the render that follows the
\* dispatches
notifyEffect ==
  LET st == getState(prevStateRef, actionRef.props)
  IN /\ session = "hooks"
     /\ batch > 0
     /\ log' = Tag(callOnChangeProps(actionRef, st, state), 1)
     /\ call' = [op |-> "useEffect", cb |-> FALSE]
     /\ trace' = <<[pre |-> st, isFn |-> FALSE, stateToSet |-> state,
                    patch |-> Spread(state, [type |-> actionRef.type]),
                    post |-> state]>>
     /\ prevStateRef' = state
     /\ batch' = 0
     /\ UNCHANGED <<session, cycleVars, state, props, reducerKind, view, actionRef,
                    opened, envVars, statusTimers>>

(* ------------------- timers, listeners and the status ------------------- *)

\* The second kind of session, "tracker", is the environment side of a hook
\* widget: useMouseAndTouchTracker and useA11yMessageSetter around the hook's
\* isOpen. Its handleBlur is the callback the widget hook passes in.

\* the pending timers of internalSetTimeout a session tells apart, in the
\* order internalClearTimeouts visits them; a pointer move may follow another
\* within 250 ms, so two of its timers can be pending: "avoidScrolling" is
\* the older of them, "avoidScrolling2" the one set while it was pending
TimerKinds ==
  <<"blurInput", "blurButton", "clickButton", "avoidScrolling",
    "avoidScrolling2">>

\* at most so many setA11yStatus calls are followed
MaxPublished == 2

\* at most so many times the tracker's effect runs
MaxEffects == 3

\* what document.activeElement may be when a blur timer fires: nothing, the
\* widget's input, the widget's toggle button (inside the root), a toggle
\* button of another widget
ActiveElements == {"none", "input", "toggle", "foreignToggle"}

\* the listeners for event e are attached to the environment
Listening(e) == added[e] > removed[e]

\* internalSetTimeout(fn, time): the id is pushed to timeoutIds
internalSetTimeout(kind) == timeoutIds' = timeoutIds \cup {kind}

\* mutant: internalClearTimeouts leaves the timers running
internalClearTimeouts_KeepsTimers == timeoutIds

\* internalClearTimeouts(): what is left of timeoutIds
internalClearTimeouts == {}

\* the argument updateStatus hands to props.getA11yStatusMessage for state s
\* (the component) or the hook's getA11yMessage closes over (the hooks);
\* previousResultCount is 0 until the first status is set
statusOf(s) ==
  [isOpen |-> s.isOpen,
   selectedItem |-> s.selectedItem,
   inputValue |-> s.inputValue,
   highlightedIndex |-> s.highlightedIndex,
   highlightedItem |-> IF s.highlightedIndex \in DOMAIN items
                       THEN items[s.highlightedIndex] ELSE Undefined,
   resultCount |-> getItemCount,
   previousResultCount |-> IF published = <<>> THEN 0 ELSE getItemCount]

\* a handler of the environment or a timer that ends without a transition
Idle(c) ==
  /\ call' = c
  /\ trace' = <<>>
  /\ log' = <<>>
  /\ UNCHANGED <<session, cycleVars, state, props, reducerKind, view, hookVars,
                 statusTimers>>

\* the tracker calls handleBlur()
handleBlur(c) ==
  /\ call' = c
  /\ trace' = <<>>
  /\ log' = <<[n |-> "handleBlur", t |-> 1]>>
  /\ UNCHANGED <<session, cycleVars, state, props, reducerKind, view, hookVars,
                 statusTimers>>

\* this.reset({type: op}, cb) as a handler or a timer calls it
resetTransit(c) ==
  TransitCall(c, TRUE,
              resetPatch(Downshift_getState(state, props), [type |-> c.op]))

\* mutant: onMouseUp does not look at isOpen
shouldResetOnMouseUp_WhenClosed(within, isOpen) == ~within

\* the test of onMouseUp: the target is outside the widget and the menu is
\* open
shouldResetOnMouseUp(within, isOpen) == ~within /\ isOpen

\* mutant: onTouchEnd does not look at isTouchMove
shouldResetOnTouchEnd_IgnoresMove(moved, within, isOpen) == ~within /\ isOpen

\* the test of onTouchEnd: no touchmove, the target is outside the widget and
\* the menu is open
shouldResetOnTouchEnd(moved, within, isOpen) == ~moved /\ ~within /\ isOpen

\* mutant: a toggle button outside the root counts as the widget's
downshiftButtonIsActive_AnyToggle(activeElement) ==
  activeElement \in {"toggle", "foreignToggle"}

\* downshiftButtonIsActive of inputHandleBlur: the active element has
\* data-toggle and the root contains it
downshiftButtonIsActive(activeElement) == activeElement = "toggle"

\* onMouseDown, of componentDidMount and of useMouseAndTouchTracker
onMouseDown ==
  /\ Listening("mousedown")
  /\ isMouseDown' = TRUE
  /\ Idle([op |-> "mouseDown", cb |-> FALSE])
  /\ UNCHANGED <<mounted, isTouchMove, avoidScrolling, timeoutIds, added,
                 removed, published>>

\* mutant: a mouseup inside the widget leaves the flag as it is
onMouseUp_KeepsFlagInside(within) ==
  LET c == [op |-> "mouseUp", cb |-> session = "Downshift",
            within |-> within, wasDown |-> isMouseDown]
  IN /\ Listening("mouseup")
     /\ isMouseDown' = IF within THEN isMouseDown ELSE FALSE
     /\ IF session = "Downshift"
        THEN IF shouldResetOnMouseUp(within,
                                     Downshift_getState(state, props).isOpen)
             THEN resetTransit(c)
             ELSE Idle(c)
        ELSE IF shouldResetOnMouseUp(within, view.isOpen)
             THEN handleBlur(c)
             ELSE Idle(c)
     /\ UNCHANGED <<mounted, isTouchMove, avoidScrolling, timeoutIds, added,
                    removed, published>>

\* onMouseUp(event); within: targetWithinDownshift(event.target, ...)
onMouseUp(within) ==
  LET c == [op |-> "mouseUp", cb |-> session = "Downshift",
            within |-> within, wasDown |-> isMouseDown]
  IN /\ Listening("mouseup")
     /\ isMouseDown' = FALSE
     /\ IF session = "Downshift"
        THEN IF shouldResetOnMouseUp(within,
                                     Downshift_getState(state, props).isOpen)
             THEN resetTransit(c)
             ELSE Idle(c)
        ELSE IF shouldResetOnMouseUp(within, view.isOpen)
             THEN handleBlur(c)
             ELSE Idle(c)
     /\ UNCHANGED <<mounted, isTouchMove, avoidScrolling, timeoutIds, added,
                    removed, published>>

\* onTouchStart
onTouchStart ==
  /\ Listening("touchstart")
  /\ isTouchMove' = FALSE
  /\ Idle([op |-> "touchStart", cb |-> FALSE])
  /\ UNCHANGED <<mounted, isMouseDown, avoidScrolling, timeoutIds, added,
                 removed, published>>

\* onTouchMove
onTouchMove ==
  /\ Listening("touchmove")
  /\ isTouchMove' = TRUE
  /\ Idle([op |-> "touchMove", cb |-> FALSE])
  /\ UNCHANGED <<mounted, isMouseDown, avoidScrolling, timeoutIds, added,
                 removed, published>>

\* onTouchEnd(event); within: targetWithinDownshift(event.target, ..., false)
onTouchEnd(within) ==
  LET c == [op |-> "touchEnd", cb |-> session = "Downshift",
            within |-> within, moved |-> isTouchMove]
  IN /\ Listening("touchend")
     /\ IF session = "Downshift"
        THEN IF shouldResetOnTouchEnd(isTouchMove, within,
                                      Downshift_getState(state, props).isOpen)
             THEN resetTransit(c)
             ELSE Idle(c)
        ELSE IF shouldResetOnTouchEnd(isTouchMove, within, view.isOpen)
             THEN handleBlur(c)
             ELSE Idle(c)
     /\ UNCHANGED envVars

\* inputHandleBlur: the check is left to a timer
inputHandleBlur ==
  /\ session = "Downshift" /\ mounted
  /\ "blurInput" \notin timeoutIds
  /\ internalSetTimeout("blurInput")
  /\ Idle([op |-> "inputHandleBlur", cb |-> FALSE])
  /\ UNCHANGED <<mounted, isMouseDown, isTouchMove, avoidScrolling, added,
                 removed, published>>

\* the timer of inputHandleBlur fires; activeElement is
\* environment.document.activeElement at that moment
inputBlurTimeout(activeElement) ==
  LET c == [op |-> "blurInput", cb |-> FALSE,
            activeElement |-> activeElement, isMouseDown |-> isMouseDown]
  IN /\ session = "Downshift" /\ "blurInput" \in timeoutIds
     /\ timeoutIds' = timeoutIds \ {"blurInput"}
     /\ IF isMouseDown THEN Idle(c)
        ELSE IF ~downshiftButtonIsActive(activeElement)
             THEN resetTransit(c)
             ELSE Idle(c)
     /\ UNCHANGED <<mounted, isMouseDown, isTouchMove, avoidScrolling, added,
                    removed, published>>

\* buttonHandleBlur(event): the check is left to a timer; event.target, the
\* blurred button, is the widget's toggle button
buttonHandleBlur ==
  /\ session = "Downshift" /\ mounted
  /\ "blurButton" \notin timeoutIds
  /\ internalSetTimeout("blurButton")
  /\ Idle([op |-> "buttonHandleBlur", cb |-> FALSE])
  /\ UNCHANGED <<mounted, isMouseDown, isTouchMove, avoidScrolling, added,
                 removed, published>>

\* the timer of buttonHandleBlur fires
buttonBlurTimeout(activeElement) ==
  LET c == [op |-> "blurButton", cb |-> FALSE,
            activeElement |-> activeElement, isMouseDown |-> isMouseDown]
      blurTarget == "toggle"
  IN /\ session = "Downshift" /\ "blurButton" \in timeoutIds
     /\ timeoutIds' = timeoutIds \ {"blurButton"}
     /\ IF isMouseDown THEN Idle(c)
        ELSE IF /\ (activeElement = "none" \/ activeElement # "input")
                /\ activeElement # blurTarget
             THEN resetTransit(c)
             ELSE Idle(c)
     /\ UNCHANGED <<mounted, isMouseDown, isTouchMove, avoidScrolling, added,
                    removed, published>>

\* buttonHandleClick(event) outside the test build: toggleMenu is left to a
\* timer
buttonHandleClick ==
  /\ session = "Downshift" /\ mounted
  /\ "clickButton" \notin timeoutIds
  /\ internalSetTimeout("clickButton")
  /\ Idle([op |-> "buttonHandleClick", cb |-> FALSE])
  /\ UNCHANGED <<mounted, isMouseDown, isTouchMove, avoidScrolling, added,
                 removed, published>>

\* the timer of buttonHandleClick fires
buttonClickTimeout ==
  /\ session = "Downshift" /\ "clickButton" \in timeoutIds
  /\ timeoutIds' = timeoutIds \ {"clickButton"}
  /\ toggleMenuTransit("clickButton", [type |-> "clickButton"], FALSE)
  /\ UNCHANGED <<mounted, isMouseDown, isTouchMove, avoidScrolling, added,
                 removed, published>>

\* the onMouseMove handler getItemProps gives the item at index; a disabled
\* item gets none
itemMouseMove(index) ==
  /\ session = "Downshift" /\ mounted
  /\ ~isItemDisabled(index)
  /\ "avoidScrolling2" \notin timeoutIds
  /\ IF index = Downshift_getState(state, props).highlightedIndex
     THEN /\ Idle([op |-> "itemMouseMove", cb |-> FALSE])
          /\ UNCHANGED envVars
     ELSE /\ Transit("itemMouseEnter", FALSE, FALSE,
                     [highlightedIndex |-> index, type |-> "itemMouseEnter"])
          /\ avoidScrolling' = TRUE
          /\ internalSetTimeout(IF "avoidScrolling" \in timeoutIds
                                THEN "avoidScrolling2"
                                ELSE "avoidScrolling")
          /\ UNCHANGED <<mounted, isMouseDown, isTouchMove, added, removed,
                         published>>

\* the older timer of the onMouseMove handler fires, 250 ms after the move
\* that set it; a timer set after it is the older one from now on
avoidScrollingTimeout ==
  /\ session = "Downshift" /\ "avoidScrolling" \in timeoutIds
  /\ timeoutIds' = IF "avoidScrolling2" \in timeoutIds
                   THEN timeoutIds \ {"avoidScrolling2"}
                   ELSE timeoutIds \ {"avoidScrolling"}
  /\ avoidScrolling' = FALSE
  /\ Idle([op |-> "avoidScrollingTimeout", cb |-> FALSE])
  /\ UNCHANGED <<mounted, isMouseDown, isTouchMove, added, removed, published>>

\* the oldest timer of the debounced status function fires, 200 ms after
\* the call that set it: updateStatus reads the state of that moment, the
\* hooks' updateA11yStatus calls the getA11yMessage it was handed
updateStatusTimeout ==
  /\ statusTimers # <<>>
  /\ Len(published) < MaxPublished
  /\ statusTimers' = Tail(statusTimers)
  /\ published' = Append(published,
                         IF session = "Downshift"
                         THEN statusOf(Downshift_getState(state, props))
                         ELSE statusOf(Head(statusTimers)))
  /\ call' = [op |-> "setA11yStatus", cb |-> FALSE,
              last |-> Len(statusTimers) = 1]
  /\ trace' = <<>>
  /\ log' = <<>>
  /\ UNCHANGED <<session, cycleVars, state, props, reducerKind, view, hookVars, mounted,
                 isMouseDown, isTouchMove, avoidScrolling, timeoutIds, added,
                 removed>>

\* the clearTimeout calls of a teardown, as notifications
Cleared(ids) == [i \in DOMAIN ids |-> [n |-> "clearTimeout", id |-> ids[i], t |-> 0]]

\* what is in seq and in the set
Pending(seq, set) ==
  LET P(k) == k \in set IN SelectSeq(seq, P)

\* mutant: the cleanup of componentDidMount does not cancel updateStatus
cleanupStatusTimers_NoCancel == statusTimers

\* the cleanup of componentDidMount, its updateStatus.cancel()
cleanupStatusTimers == debounceCancel(statusTimers)

\* componentWillUnmount: this.cleanup()
componentWillUnmount ==
  /\ session = "Downshift" /\ mounted
  /\ mounted' = FALSE
  /\ timeoutIds' = internalClearTimeouts
  /\ statusTimers' = cleanupStatusTimers
  /\ removed' = [e \in DOMAIN removed |-> removed[e] + 1]
  /\ call' = [op |-> "componentWillUnmount", cb |-> FALSE]
  /\ trace' = <<>>
  /\ log' = Cleared(Pending(TimerKinds, timeoutIds)
                    \o (IF statusTimers # <<>> THEN <<"updateStatus">>
                                               ELSE <<>>))
  /\ UNCHANGED <<session, cycleVars, state, props, reducerKind, view, hookVars,
                 isMouseDown, isTouchMove, avoidScrolling, added, published>>

\* the hook widget renders with another isOpen: the effect of
\* useMouseAndTouchTracker (dependencies [isOpen, environment]) is cleaned
\* up and runs again, the effect of useA11yMessageSetter asks for the status
trackerRender ==
  /\ session = "tracker" /\ mounted
  /\ added["mousedown"] < MaxEffects
  /\ state' = [state EXCEPT !.isOpen = ~@]
  /\ view' = useControlledReducer(state', props)
  /\ removed' = [e \in DOMAIN removed |-> removed[e] + 1]
  /\ added' = [e \in DOMAIN added |-> added[e] + 1]
  /\ statusTimers' = updateA11yStatus(statusTimers, view')
  /\ call' = [op |-> "render", cb |-> FALSE]
  /\ trace' = <<>>
  /\ log' = <<>>
  /\ UNCHANGED <<session, cycleVars, props, reducerKind, hookVars, mounted, isMouseDown,
                 isTouchMove, avoidScrolling, timeoutIds, published>>

\* the hook widget unmounts: the cleanup of the tracker's effect runs;
\* nothing cancels updateA11yStatus
trackerUnmount ==
  /\ session = "tracker" /\ mounted
  /\ mounted' = FALSE
  /\ removed' = [e \in DOMAIN removed |-> removed[e] + 1]
  /\ call' = [op |-> "unmount", cb |-> FALSE]
  /\ trace' = <<>>
  /\ log' = <<>>
  /\ UNCHANGED <<session, cycleVars, state, props, reducerKind, view, hookVars,
                 isMouseDown, isTouchMove, avoidScrolling, timeoutIds, added,
                 statusTimers, published>>

\* The third kind of session, "widgets", is two hook widgets alive at once
\* on one page: each has its state, both call the one updateA11yStatus of the
\* module.
Widgets == {"first", "second"}

\* the hook widget w renders with another isOpen: its effect of
\* useA11yMessageSetter asks for the status
widgetRender(w) ==
  /\ session = "widgets" /\ mounted
  /\ state' = [state EXCEPT ![w].isOpen = ~@]
  /\ view' = [v \in Widgets |-> useControlledReducer(state'[v], props)]
  /\ statusTimers' = updateA11yStatus(statusTimers,
                                      Spread(view'[w], [widget |-> w]))
  /\ call' = [op |-> "render", cb |-> FALSE, widget |-> w]
  /\ trace' = <<>>
  /\ log' = <<>>
  /\ UNCHANGED <<session, cycleVars, props, reducerKind, hookVars, envVars>>

(* ---------------------------- the specification ------------------------- *)

\* the value of the prop key of p, or the default of the destructuring
propOr(p, key, default) == IF Has(p, key) THEN p[key] ELSE default

\* the state the constructor starts from: each initial* prop or its default
constructorDefaults(p) ==
  [highlightedIndex |->
     propOr(p, "initialHighlightedIndex", defaultHighlightedIndex),
   isOpen |-> propOr(p, "initialIsOpen", defaultIsOpen),
   inputValue |-> propOr(p, "initialInputValue", ""),
   selectedItem |-> propOr(p, "initialSelectedItem", Null)]

\* mutant: the constructor takes a falsy selected item for no item
constructorState_TruthyItem(p) ==
  LET st == Downshift_getState(constructorDefaults(p), p)
  IN IF st.selectedItem # Null /\ st.selectedItem # 0
        /\ ~Has(p, "initialInputValue")
     THEN [st EXCEPT !.inputValue = itemToString(st.selectedItem)]
     ELSE st

\* the constructor of the component
constructorState(p) ==
  LET st == Downshift_getState(constructorDefaults(p), p)
  IN IF st.selectedItem # Null /\ ~Has(p, "initialInputValue")
     THEN [st EXCEPT !.inputValue = itemToString(st.selectedItem)]
     ELSE st

\* the events of the environment a session listens to
Events == {"mousedown", "mouseup", "touchstart", "touchmove", "touchend"}

\* a session after its mount: componentDidMount of the component and the
\* first effect of useMouseAndTouchTracker have added their listeners;
\* useControlledReducer alone ("hooks") adds none
MountedBefore(firstCall) ==
  /\ state = CASE session = "Downshift" -> constructorState(props)
               [] session = "widgets" ->
                    [w \in Widgets |-> getInitialState(props)]
               [] OTHER -> getInitialState(props)
  /\ view = getState(state, props)
  /\ call = firstCall
  /\ trace = <<>>
  /\ log = <<>>
  /\ prevStateRef = state
  /\ actionRef = [type |-> "none", props |-> props]
  /\ batch = 0
  /\ opened = (Has(props, "initialHighlightedIndex") /\ state.isOpen)
  /\ registered = [i \in 1..NumItems |-> items[i - 1]]
  /\ itemCount = Null
  /\ mounted = TRUE
  /\ isMouseDown = FALSE
  /\ isTouchMove = FALSE
  /\ avoidScrolling = FALSE
  /\ timeoutIds = {}
  /\ added = [e \in Events |-> IF session = "hooks" THEN 0 ELSE 1]
  /\ removed = [e \in Events |-> 0]
  /\ statusTimers = <<>>
  /\ published = <<>>

Mounted == MountedBefore([op |-> "mount", cb |-> FALSE])

Init ==
  /\ session \in {"Downshift", "hooks"}
  /\ props \in PropsChoices
  /\ reducerKind \in ReducerKinds
  /\ Mounted

Booleans == {TRUE, FALSE}

HighlightInputs == {0, NumItems - 1, MaxHighlight}

HookActions ==
  {[type |-> t] : t \in {"FunctionToggleMenu", "FunctionOpenMenu",
                         "FunctionCloseMenu", "FunctionReset",
                         "InputKeyDownEnter"}}
  \cup {[type |-> "FunctionSetHighlightedIndex", highlightedIndex |-> i] :
          i \in HighlightInputs}
  \cup {[type |-> "FunctionSelectItem", selectedItem |-> x] :
          x \in ItemValues \cup {Null}}
  \cup {[type |-> "InputChange", inputValue |-> x] : x \in InputTexts}

Next ==
  \/ \E item \in ItemValues \cup {Null}, cb \in Booleans :
       selectItem("selectItem", item, EmptyObject, cb)
  \/ \E i \in 0..NumItems, cb \in Booleans :
       selectItemAtIndex("selectItemAtIndex", i, EmptyObject, cb)
  \/ \E cb \in Booleans :
       selectHighlightedItem("selectHighlightedItem", EmptyObject, cb)
  \/ \E cb \in Booleans : clearSelection(cb)
  \/ \E cb \in Booleans : reset("reset", EmptyObject, cb)
  \/ \E cb \in Booleans : openMenu(cb)
  \/ \E cb \in Booleans : closeMenu(cb)
  \/ \E cb \in Booleans : toggleMenu("toggleMenu", EmptyObject, cb)
  \/ \E i \in HighlightInputs :
       setHighlightedIndex("setHighlightedIndex", i, EmptyObject)
  \/ \E text \in InputTexts : inputHandleChange(text)
  \/ keyDownEscape
  \/ \E composing \in Booleans : keyDownEnter(composing)
  \/ \E i \in DOMAIN items : clickItem(i)
  \/ \E key \in StateKeys : \E value \in PropValues[key] :
       componentDidUpdate(key, value)
  \/ \E action \in HookActions : dispatch(action)
  \/ notifyEffect

Spec == Init /\ [][Next]_vars

\* The environment side of a session: a component or a hook widget with the
\* default props, from its mount to its teardown and after
InitEnv ==
  /\ session \in {"Downshift", "tracker"}
  /\ props = EmptyObject
  /\ reducerKind = "default"
  /\ Mounted

NextEnv ==
  \/ openMenu(FALSE)
  \/ \E i \in DOMAIN items : clickItem(i)
  \/ \E i \in DOMAIN items : itemMouseMove(i)
  \/ onMouseDown
  \/ \E within \in Booleans : onMouseUp(within)
  \/ onTouchStart
  \/ onTouchMove
  \/ \E within \in Booleans : onTouchEnd(within)
  \/ inputHandleBlur
  \/ \E a \in ActiveElements : inputBlurTimeout(a)
  \/ buttonHandleBlur
  \/ \E a \in ActiveElements : buttonBlurTimeout(a)
  \/ buttonHandleClick
  \/ buttonClickTimeout
  \/ avoidScrollingTimeout
  \/ componentWillUnmount
  \/ trackerRender
  \/ trackerUnmount

SpecEnv == InitEnv /\ [][NextEnv]_vars

\* The status side of a session: the updates that ask for a status, the
\* timers of the debounced status function, and the teardown
NextStatus ==
  \/ openMenu(FALSE)
  \/ \E i \in DOMAIN items : clickItem(i)
  \/ \E i \in DOMAIN items :
       setHighlightedIndex("setHighlightedIndex", i, EmptyObject)
  \/ updateStatusTimeout
  \/ componentWillUnmount
  \/ trackerRender
  \/ trackerUnmount

SpecStatus == InitEnv /\ [][NextStatus]_vars

\* reset({selectedItem: item}): the caller's extra patch sets the selection
resetWith(item) ==
  /\ session = "Downshift" /\ mounted
  /\ reset("resetWith", [selectedItem |-> item], FALSE)

\* The resets of a component, its selectedItem controlled or not: the
\* programmatic ones, the ones of the blur timers and of the outside events
InitReset ==
  /\ session = "Downshift"
  /\ props \in PropChoice("selectedItem")
  /\ reducerKind = "default"
  /\ Mounted

NextReset ==
  \/ \E cb \in Booleans : reset("reset", EmptyObject, cb)
  \/ \E item \in ItemValues \cup {Null} : resetWith(item)
  \/ openMenu(FALSE)
  \/ \E i \in DOMAIN items : clickItem(i)
  \/ \E i \in DOMAIN items :
       setHighlightedIndex("setHighlightedIndex", i, EmptyObject)
  \/ \E text \in InputTexts : inputHandleChange(text)
  \/ \E value \in ItemValues \cup {Null} :
       componentDidUpdate("selectedItem", value)
  \/ onMouseDown
  \/ \E within \in Booleans : onMouseUp(within)
  \/ \E within \in Booleans : onTouchEnd(within)
  \/ inputHandleBlur
  \/ \E a \in ActiveElements : inputBlurTimeout(a)
  \/ buttonHandleBlur
  \/ \E a \in ActiveElements : buttonBlurTimeout(a)

SpecReset == InitReset /\ [][NextReset]_vars

\* A component whose selectedItem the caller controls, with the default
\* selectedItemChanged or one that compares ids, and perhaps isOpen too
SelectionPropsChoices ==
  {a @@ b @@ c : a \in {[selectedItem |-> x] : x \in ItemValues \cup {Null}},
                 b \in {EmptyObject, [selectedItemChanged |-> "byId"]},
                 c \in {EmptyObject, [isOpen |-> TRUE]}}

InitProps ==
  /\ session = "Downshift"
  /\ props \in SelectionPropsChoices
  /\ reducerKind = "default"
  /\ Mounted

NextProps ==
  \/ \E value \in ItemValues \cup {Null} :
       componentDidUpdate("selectedItem", value)
  \/ \E value \in Booleans : componentDidUpdate("isOpen", value)
  \/ openMenu(FALSE)
  \/ \E i \in DOMAIN items :
       setHighlightedIndex("setHighlightedIndex", i, EmptyObject)
  \/ \E text \in InputTexts : inputHandleChange(text)

SpecProps == InitProps /\ [][NextProps]_vars

\* the sets of indexes a render function disables: none, the first, the last,
\* every one
DisabledChoices == {{}, {0}, {MaxItems - 1}, 0..(MaxItems - 1)}

\* A component given its itemCount as a prop, navigated with the keyboard
InitNav ==
  /\ session = "Downshift"
  /\ props \in {[itemCount |-> n, disabledIndexes |-> d] :
                  n \in 0..MaxItems, d \in DisabledChoices}
  /\ reducerKind = "default"
  /\ Mounted

NextNav ==
  \/ \E shiftKey \in Booleans : keyDownArrowDown(shiftKey)
  \/ \E shiftKey \in Booleans : keyDownArrowUp(shiftKey)
  \/ keyDownHome
  \/ keyDownEnd
  \/ openMenu(FALSE)
  \/ closeMenu(FALSE)
  \/ \E text \in {"x"} : inputHandleChange(text)
  \/ \E i \in 0..(MaxItems - 1) :
       setHighlightedIndex("setHighlightedIndex", i, EmptyObject)
  \/ \E n \in 0..MaxItems : componentDidUpdate("itemCount", n)

SpecNav == InitNav /\ [][NextNav]_vars

\* The highlight a hook computes when its menu opens, as a function of its
\* arguments: the list of items, the two props, the selected item, the
\* highlight of the state and the offset
IndexInputs == {Undefined} \cup 0..MaxItems

\* the arguments of a call of getHighlightedIndexOnOpen
OnOpenArguments(n, first, initial, default, selected, highlighted, offset) ==
  [op |-> "arguments", cb |-> FALSE,
   props |-> [items |-> [i \in 1..n |-> first + i - 1]]
             @@ (IF initial = Undefined THEN EmptyObject
                 ELSE [initialHighlightedIndex |-> initial])
             @@ (IF default = Undefined THEN EmptyObject
                 ELSE [defaultHighlightedIndex |-> default]),
   state |-> [highlightedIndex |-> highlighted, isOpen |-> FALSE,
              selectedItem |-> selected, inputValue |-> ""],
   offset |-> offset]

\* the call of getHighlightedIndexOnOpen with the arguments at hand
applyGetHighlightedIndexOnOpen ==
  /\ session = "hooks"
  /\ call.op = "arguments"
  /\ call' = Spread(call,
                    [op |-> "getHighlightedIndexOnOpen",
                     result |-> getHighlightedIndexOnOpen(call.props,
                                  call.state, call.offset)])
  /\ UNCHANGED <<session, cycleVars, state, props, reducerKind, trace, log, view,
                 hookVars, envVars, statusTimers>>

InitIndex ==
  /\ session = "hooks"
  /\ props = EmptyObject
  /\ reducerKind = "default"
  /\ \E n \in 0..MaxItems, first \in {0, 10}, initial \in IndexInputs,
        default \in IndexInputs, selected \in {Null, 0, 1, 10, 11},
        highlighted \in -1..MaxItems, offset \in {-1, 0, 1} :
       MountedBefore(OnOpenArguments(n, first, initial, default, selected,
                                     highlighted, offset))

NextIndex == applyGetHighlightedIndexOnOpen

SpecIndex == InitIndex /\ [][NextIndex]_vars

\* A hook given its items, and perhaps an initialHighlightedIndex and a
\* defaultHighlightedIndex, opened and closed again and again
ItemCounts == {0, MaxItems - 1, MaxItems}

OpenPropsChoices ==
  {a @@ b @@ c : a \in {[items |-> itemList(n)] : n \in ItemCounts},
                 b \in {EmptyObject, [initialHighlightedIndex |-> 1]},
                 c \in {EmptyObject,
                        [defaultHighlightedIndex |-> MaxItems - 1]}}

InitOpen ==
  /\ session = "hooks"
  /\ props \in OpenPropsChoices
  /\ reducerKind = "default"
  /\ Mounted

NextOpen ==
  \/ \E type \in {"FunctionOpenMenu", "FunctionToggleMenu",
                   "FunctionCloseMenu"} : dispatch([type |-> type])
  \/ \E i \in 0..1 :
       dispatch([type |-> "FunctionSetHighlightedIndex", highlightedIndex |-> i])
  \/ \E x \in {10} :
       dispatch([type |-> "FunctionSelectItem", selectedItem |-> x])
  \/ \E text \in {"x"} : dispatch([type |-> "InputChange", inputValue |-> text])
  \/ notifyEffect
  \/ \E n \in ItemCounts : rerenderItems(n)

SpecOpen == InitOpen /\ [][NextOpen]_vars

\* A component through its render cycles: the children function registers
\* items, the caller sets and unsets the item count, End shows the count in use
RegisteredItems == {10, 11}

InitItems ==
  /\ session = "Downshift"
  /\ props \in {[disabledIndexes |-> {}]}
               \cup {[disabledIndexes |-> {}, itemCount |-> n] :
                       n \in 0..MaxItems}
  /\ reducerKind = "default"
  /\ Mounted

NextItems ==
  \/ render
  \/ \E item \in RegisteredItems : getItemProps(item)
  \/ \E index \in 0..(MaxItems - 1) : getItemPropsAt(index, 10)
  \/ \E count \in 0..MaxItems : setItemCount(count)
  \/ unsetItemCount
  \/ openMenu(FALSE)
  \/ keyDownEnd
  \/ \E n \in 0..MaxItems : componentDidUpdate("itemCount", n)

SpecItems == InitItems /\ [][NextItems]_vars

\* A component constructed with a selected item, controlled or initial, or
\* none, with or without an initialInputValue and a controlled inputValue
ConstructorPropsChoices ==
  {a @@ b @@ c @@ d :
     a \in {EmptyObject} \cup {[selectedItem |-> x] : x \in {Null, 0, 10}},
     b \in {EmptyObject} \cup {[initialSelectedItem |-> x] : x \in {0, 11}},
     c \in {EmptyObject} \cup {[initialInputValue |-> x] : x \in {"", "x"}},
     d \in {EmptyObject, [inputValue |-> "p"]}}

InitConstructor ==
  /\ session = "Downshift"
  /\ props \in ConstructorPropsChoices
  /\ reducerKind = "default"
  /\ Mounted

NextConstructor ==
  \/ openMenu(FALSE)
  \/ \E text \in {"x"} : inputHandleChange(text)
  \/ reset("reset", EmptyObject, FALSE)

SpecConstructor == InitConstructor /\ [][NextConstructor]_vars

\* A hook whose event handlers dispatch one action or two in a row
BatchTypes ==
  {"FunctionOpenMenu", "FunctionCloseMenu", "FunctionSelectItem",
   "FunctionSetHighlightedIndex", "FunctionReset"}

InitBatch ==
  /\ session = "hooks"
  /\ props = EmptyObject
  /\ reducerKind = "default"
  /\ Mounted

NextBatch ==
  \/ \E type \in BatchTypes : dispatch(ActionOf(type))
  \/ \E first \in BatchTypes, second \in BatchTypes :
       dispatchBatch(first, second)
  \/ notifyEffect

SpecBatch == InitBatch /\ [][NextBatch]_vars

\* Two hook widgets on one page and the timers of the status they share
WidgetPropsChoices ==
  {EmptyObject, [initialSelectedItem |-> 10], [initialInputValue |-> "x"]}

InitWidgets ==
  /\ session = "widgets"
  /\ props \in WidgetPropsChoices
  /\ reducerKind = "default"
  /\ Mounted

NextWidgets ==
  \/ \E w \in Widgets : widgetRender(w)
  \/ updateStatusTimeout

SpecWidgets == InitWidgets /\ [][NextWidgets]_vars

(* ------------------------------ properties ------------------------------ *)

\* the positions in the log of the notifications of transition t
NotesOf(t) == {i \in DOMAIN log : log[i].t = t}

\* the positions in the log of the calls of callback name in transition t
CallsOf(t, name) == {i \in NotesOf(t) : log[i].n = name}

\* the state fields a transition changed: the keys of its patch whose value
\* is not the one of the effective state before it
Changed(tr) ==
  {k \in (DOMAIN tr.patch) \ {"type"} : tr.patch[k] # tr.pre[k]}

\* the log holds the notifications of the transitions in the trace: always
\* in the component, after the notification effect in a hook
Notified == session = "Downshift" \/ call.op = "useEffect"

\* the state fields the caller controls
Controlled == (DOMAIN props) \cap StateKeys

\* C1: every controlled field of the state handed to the consumer (getState
\* of the component, useControlledReducer of a hook) has the value of its
\* prop, after every call.
C1_ControlledFieldsShowProps ==
  \A k \in Controlled : view[k] = props[k]

\* C1 witness: a transition whose patch set a controlled field to a value
\* that is not the prop's.
C1_Witness ==
  /\ session = "Downshift"
  /\ \E t \in DOMAIN trace : \E k \in Controlled :
       /\ Has(trace[t].patch, k)
       /\ trace[t].patch[k] # props[k]
       /\ view[k] = props[k]

\* C2: after every transition each uncontrolled field of the patch the
\* stateReducer returned holds the patch's value, and the state left by the
\* last transition of a call is the state of the session.
C2_PatchOfStateReducerIsCommitted ==
  /\ \A t \in DOMAIN trace :
       \A k \in (DOMAIN trace[t].patch) \ ({"type"} \cup Controlled) :
         trace[t].post[k] = trace[t].patch[k]
  /\ trace # <<>> => state = trace[Len(trace)].post

\* C2 witness: the stateReducer cut a proposed highlight of MaxHighlight
\* down to ClampIndex and forced isOpen, and the state holds the cut value.
C2_Witness ==
  /\ session = "Downshift"
  /\ Controlled = {}
  /\ Len(trace) = 1
  /\ Has(trace[1].stateToSet, "highlightedIndex")
  /\ trace[1].stateToSet.highlightedIndex = MaxHighlight
  /\ ~Has(trace[1].stateToSet, "isOpen")
  /\ state.highlightedIndex = ClampIndex
  /\ state.isOpen

\* C3 (as claimed): every value the component passes to a notification is
\* the one of the patch the stateReducer returned.
C3_NotificationsCarryThePatch ==
  session = "Downshift" =>
    \A i \in DOMAIN log :
      LET patch == trace[log[i].t].patch
      IN /\ log[i].n = "onInputValueChange" =>
              Has(patch, "inputValue") /\ log[i].v = patch.inputValue
         /\ log[i].n \in {"onSelect", "onChange"} =>
              Has(patch, "selectedItem") /\ log[i].item = patch.selectedItem
         /\ log[i].n \in {"onStateChange", "onUserAction"} =>
              \A k \in DOMAIN log[i].changes :
                Has(patch, k) /\ log[i].changes[k] = patch[k]

\* C4: in a transition whose patch holds a controlled field, every
\* uncontrolled field of the patch is written with the patch's value, and
\* the consumer still sees the prop for the controlled field.
C4_ControlledFieldSuppressesNoWrite ==
  \A t \in DOMAIN trace :
    (\E c \in Controlled : Has(trace[t].patch, c)) =>
      /\ \A k \in (DOMAIN trace[t].patch) \ ({"type"} \cup Controlled) :
           trace[t].post[k] = trace[t].patch[k]
      /\ \A c \in Controlled : view[c] = props[c]

\* C4 witness: selectItem while selectedItem is controlled: the patch holds
\* another item than the prop, and the new inputValue is written.
C4_Witness ==
  /\ session = "Downshift"
  /\ call.op = "selectItem"
  /\ Controlled = {"selectedItem"}
  /\ trace[1].patch.selectedItem # props.selectedItem
  /\ Has(trace[1].patch, "inputValue")
  /\ trace[1].patch.inputValue # trace[1].pre.inputValue
  /\ state.inputValue = trace[1].patch.inputValue
  /\ view.selectedItem = props.selectedItem

\* the place of a notification in the order of one transition (0: none)
Rank(name) ==
  CASE name = "cb" -> 0
    [] name = "onStateChange" -> 2
    [] name \in {"onSelect", "onChange"} -> 3
    [] name = "onUserAction" -> 4
    [] OTHER -> 1

\* C5: within a transition the per-field notifications come first, then
\* onStateChange, then onSelect and onChange, then onUserAction.
C5_NotificationOrder ==
  \A i, j \in DOMAIN log :
    (i < j /\ log[i].t = log[j].t /\ Rank(log[i].n) > 0 /\ Rank(log[j].n) > 0)
      => Rank(log[i].n) <= Rank(log[j].n)

\* C5 witness: a transition of the component that fired all five callbacks.
C5_Witness ==
  /\ session = "Downshift"
  /\ \A name \in {"onInputValueChange", "onStateChange", "onSelect",
                   "onChange", "onUserAction"} : CallsOf(1, name) # {}

\* C6 (as claimed): a completion callback passed to an action method is
\* called exactly once, after onStateChange, onSelect, onChange and
\* onUserAction of the transition.
C6_CallbackAfterNotifications ==
  (session = "Downshift" /\ call.cb) =>
    /\ Cardinality({i \in DOMAIN log : log[i].n = "cb"}) = 1
    /\ \A i, j \in NotesOf(1) :
         (log[i].n = "cb" /\ Rank(log[j].n) >= 2) => j < i

\* C7 (as claimed): a per-field notification fires in a transition exactly
\* when the field changed, and then once.
C7_PerFieldNotificationIffChanged ==
  Notified =>
    \A t \in DOMAIN trace :
      \A k \in StateKeys :
        Cardinality({i \in NotesOf(t) :
                      log[i].n = PropName("on", k) \o "Change"})
          = IF k \in Changed(trace[t])
               /\ (session = "Downshift" => k = "inputValue")
            THEN 1 ELSE 0

\* C8: onStateChange fires in a transition exactly when a state field
\* changed, once, and carries the changed fields with their new values and
\* the type, and nothing else.
C8_AggregateNotification ==
  Notified =>
    \A t \in DOMAIN trace :
      LET changed == Changed(trace[t])
          calls == CallsOf(t, "onStateChange")
      IN /\ Cardinality(calls) = IF changed = {} THEN 0 ELSE 1
         /\ \A i \in calls :
              /\ DOMAIN log[i].changes = changed \cup {"type"}
              /\ \A k \in DOMAIN log[i].changes :
                   log[i].changes[k] = trace[t].patch[k]

\* C8 witness: a patch of the component with a changed and an unchanged
\* field: onStateChange carries the first and not the second.
C8_Witness ==
  /\ session = "Downshift"
  /\ Len(trace) = 1
  /\ \E i \in CallsOf(1, "onStateChange") :
       /\ Has(log[i].changes, "isOpen")
       /\ Has(trace[1].patch, "highlightedIndex")
       /\ ~Has(log[i].changes, "highlightedIndex")

C10_SelectionChangedNotification ==
  session = "Downshift" =>
    \A t \in DOMAIN trace :
      LET calls == CallsOf(t, "onChange")
      IN /\ Cardinality(calls) =
              IF "selectedItem" \in Changed(trace[t]) THEN 1 ELSE 0
         /\ \A i \in calls : log[i].item = trace[t].patch.selectedItem

\* C10 witness: a patch that sets selectedItem to the item already selected:
\* onSelect fires, onChange does not.
C10_Witness ==
  /\ session = "Downshift"
  /\ Len(trace) = 1
  /\ Has(trace[1].patch, "selectedItem")
  /\ trace[1].patch.selectedItem = trace[1].pre.selectedItem
  /\ trace[1].patch.selectedItem # Null
  /\ CallsOf(1, "onSelect") # {}
  /\ CallsOf(1, "onChange") = {}

(* --------------------------- commit a selection ------------------------- *)

\* the indexes of the items a user can commit: registered and not disabled
EnabledIndexes == {i \in DOMAIN items : ~isItemDisabled(i)}

\* the ways to commit the highlighted item
CommitOps == {"keyDownEnter", "selectHighlightedItem"}

\* what a commit of item x is claimed to do, in the state after it
Committed(x) ==
  /\ Len(trace) = 1
  /\ LET tr == trace[1]
     IN /\ ~tr.isFn
        /\ \A k \in StateKeys : Has(tr.stateToSet, k)
        /\ tr.stateToSet.selectedItem = x
        /\ tr.stateToSet.inputValue = itemToString(x)
        /\ tr.stateToSet.isOpen = defaultIsOpen
        /\ tr.stateToSet.highlightedIndex = defaultHighlightedIndex
        /\ reducerKind = "default" =>
             /\ \A k \in StateKeys \ Controlled : state[k] = tr.stateToSet[k]
             /\ Cardinality(CallsOf(1, "onChange")) =
                  IF x # tr.pre.selectedItem THEN 1 ELSE 0

\* a step that commits: Enter or selectHighlightedItem while the menu is
\* open and an enabled item is highlighted, or a click on an enabled item
CommitStep ==
  /\ (/\ call'.op \in CommitOps
      /\ view.isOpen
      /\ view.highlightedIndex \in EnabledIndexes)
       => \E i \in EnabledIndexes :
            i = view.highlightedIndex /\ Committed(items[i])'
  /\ call'.op = "clickItem" =>
       \E i \in EnabledIndexes : Committed(items[i])'

\* C11: a commit (Enter, a click on an item, selectHighlightedItem) of an
\* existing, enabled item x proposes selectedItem x, inputValue
\* itemToString(x), isOpen and highlightedIndex at their defaults; with the
\* default stateReducer the uncontrolled fields take these values and
\* onChange fires once when x is not the previous selection, else not.
C11_CommitSelectsHighlightedItem == [][CommitStep]_vars

\* C11 witness: Enter on the open menu selected the highlighted item, which
\* was not the selection before; the menu closed and onChange fired once.
C11_Witness ==
  /\ session = "Downshift"
  /\ call.op = "keyDownEnter"
  /\ reducerKind = "default"
  /\ Controlled = {}
  /\ Len(trace) = 1
  /\ trace[1].pre.isOpen
  /\ trace[1].pre.highlightedIndex \in EnabledIndexes
  /\ trace[1].pre.selectedItem # items[trace[1].pre.highlightedIndex]
  /\ state.selectedItem = items[trace[1].pre.highlightedIndex]
  /\ state.inputValue = itemToString(state.selectedItem)
  /\ ~state.isOpen
  /\ state.highlightedIndex = defaultHighlightedIndex
  /\ Cardinality(CallsOf(1, "onChange")) = 1


\* the highlightedIndex that stands for "no item highlighted": null in the
\* component, -1 in the hooks
Sentinel == IF session = "Downshift" THEN Null ELSE -1

\* the ways to commit the highlighted item: Enter and selectHighlightedItem
\* of the component, the Enter action of the hooks
SentinelCommitOps == CommitOps \cup {"InputKeyDownEnter"}

\* C12: a commit while highlightedIndex is the sentinel leaves selectedItem,
\* isOpen and inputValue as they were, and the only notification it fires is
\* onUserAction
C12_CommitOnSentinelIsNoOp ==
  [][(/\ call'.op \in SentinelCommitOps
      /\ view.highlightedIndex = Sentinel)
       => /\ view'.selectedItem = view.selectedItem
          /\ view'.isOpen = view.isOpen
          /\ view'.inputValue = view.inputValue
          /\ \A j \in DOMAIN log' : log'[j].n = "onUserAction"
          /\ session = "Downshift" => Len(log') = 1]_vars



\* every path that commits an item by its index
IndexCommitOps == CommitOps \cup {"clickItem", "selectItemAtIndex"}

\* C13: a commit whose index is out of range or names a disabled item never
\* changes selectedItem, whatever the path (Enter, a click on the item,
\* selectHighlightedItem, selectItemAtIndex): a commit that changes
\* selectedItem sets it to an enabled item, the highlighted one on the paths
\* that commit the highlighted item
C13_BadIndexNeverSelects ==
  [][(/\ call'.op \in IndexCommitOps
      /\ reducerKind = "default"
      /\ view'.selectedItem # view.selectedItem)
       => /\ \E i \in EnabledIndexes : view'.selectedItem = items[i]
          /\ call'.op \in CommitOps
               => view.highlightedIndex \in EnabledIndexes]_vars



(* -------------------- outside interactions and teardown ----------------- *)

\* the resets the last call made: the transitions of reset in the component
\* (their type is the call's), the calls of handleBlur in the tracker
OutsideResets ==
  IF session = "Downshift"
  THEN Cardinality({t \in DOMAIN trace :
                      /\ trace[t].isFn
                      /\ trace[t].patch.type = call.op
                      /\ trace[t].stateToSet =
                           resetPatch(trace[t].pre, [type |-> call.op])})
  ELSE Cardinality(CallsOf(1, "handleBlur"))

\* the onStateChange calls of the last call
AggregateCalls == Cardinality({i \in DOMAIN log : log[i].n = "onStateChange"})

\* the last call left everything as it was
Untouched == trace = <<>> /\ OutsideResets = 0 /\ AggregateCalls = 0

C15_TapResetsSwipeDoesNot ==
  [][/\ call'.op = "touchStart" => ~isTouchMove'
     /\ call'.op = "touchMove" => isTouchMove'
     /\ (call'.op = "touchEnd" /\ view.isOpen /\ ~call'.within)
          => /\ isTouchMove' = isTouchMove
             /\ IF isTouchMove
                THEN Untouched' /\ view' = view
                ELSE /\ OutsideResets' = 1
                     /\ session = "Downshift" => Len(trace') = 1]_vars

\* C15 witness: a tap outside the open component has reset it
C15_Witness ==
  /\ session = "Downshift"
  /\ call.op = "touchEnd" /\ ~call.moved /\ ~call.within
  /\ Len(trace) = 1 /\ trace[1].pre.isOpen
  /\ OutsideResets = 1
  /\ ~view.isOpen

\* C16: once the component is torn down, no step applies a transition or
\* calls onStateChange: no timer set before the teardown and no event of the
\* environment reaches a handler
C16_NoTransitionAfterTeardown ==
  [][(session = "Downshift" /\ ~mounted)
       => /\ Untouched'
          /\ state' = state
          /\ view' = view]_vars

\* C16 witness: the teardown found all the timers pending and cleared them,
\* and no listener is left
C16_Witness ==
  /\ session = "Downshift" /\ ~mounted
  /\ call.op = "componentWillUnmount"
  /\ \A k \in DOMAIN TimerKinds :
       \E j \in DOMAIN log : log[j].n = "clearTimeout" /\ log[j].id = TimerKinds[k]
  /\ timeoutIds = {}
  /\ \A e \in Events : ~Listening(e)
  /\ view.isOpen

\* C17: over the whole life of a session each of the five listeners is
\* added once, at the mount, and removed once, at the teardown
C17_ListenersAddedAndRemovedOnce ==
  \A e \in Events :
    /\ added[e] = 1
    /\ removed[e] = IF mounted THEN 0 ELSE 1

\* C18: once the component is torn down, setA11yStatus is never called, even
\* when a call of the debounced updateStatus was pending at the teardown
C18_NoStatusAfterTeardown ==
  [][(session = "Downshift" /\ ~mounted) => published' = published]_vars

\* C18 witness: the teardown cancelled a pending call of updateStatus
C18_Witness ==
  /\ session = "Downshift" /\ ~mounted
  /\ call.op = "componentWillUnmount"
  /\ \E j \in DOMAIN log : log[j].n = "clearTimeout" /\ log[j].id = "updateStatus"
  /\ statusTimers = <<>>

\* C19: requests for the status with no quiet window between them end in one
\* announcement: when the timer of the debounced function fires it is the
\* timer of the last request, no other timer is left, and the status set is
\* the one of the last state
C19_OneStatusPerBurst ==
  [][call'.op = "setA11yStatus"
      => /\ call'.last
         /\ statusTimers' = <<>>
         /\ published' = Append(published, statusOf(view))]_vars

\* C19 witness: the first status set is one of a state only two updates
\* reach (an item selected, then an item highlighted)
C19_Witness ==
  /\ session = "Downshift"
  /\ call.op = "setA11yStatus"
  /\ Len(published) = 1
  /\ published[1].selectedItem # Null
  /\ published[1].highlightedIndex # Null
  /\ statusTimers = <<>>

\* C20: the timer of a blur resets unless, when it fires, the mouse is down
\* or the active element is another part of the widget: the toggle button
\* inside the root for the input's blur; the input or the blurred button for
\* the button's blur. Then nothing happens
C20_BlurTimerResetsUnlessInside ==
  [][/\ call'.op = "blurInput"
          => IF isMouseDown \/ call'.activeElement = "toggle"
             THEN Untouched' /\ view' = view
             ELSE OutsideResets' = 1 /\ Len(trace') = 1
     /\ call'.op = "blurButton"
          => IF isMouseDown \/ call'.activeElement \in {"input", "toggle"}
             THEN Untouched' /\ view' = view
             ELSE OutsideResets' = 1 /\ Len(trace') = 1]_vars

\* C20 witness: the timer of the input's blur fired with a toggle button of
\* another widget active and closed the menu
C20_Witness ==
  /\ session = "Downshift"
  /\ call.op = "blurInput"
  /\ call.activeElement = "foreignToggle" /\ ~call.isMouseDown
  /\ Len(trace) = 1 /\ trace[1].pre.isOpen
  /\ ~view.isOpen
  /\ OutsideResets = 1



(* ------------------------ text input and prop updates ------------------- *)

\* C21: a change of the input's text, from any state, makes one transition
\* whose patch sets inputValue to the new text, isOpen to true and
\* highlightedIndex to its default and has no selectedItem; with the default
\* stateReducer the uncontrolled fields take these values and selectedItem
\* stays as it was
C21_InputChangeOpensAndResetsHighlight ==
  [][call'.op = "inputHandleChange"
      => /\ Len(trace') = 1
         /\ \E text \in InputTexts :
              trace'[1].stateToSet =
                [type |-> "changeInput", isOpen |-> TRUE, inputValue |-> text,
                 highlightedIndex |-> defaultHighlightedIndex]
         /\ reducerKind = "default"
              => /\ \A k \in {"inputValue", "isOpen", "highlightedIndex"}
                           \ Controlled :
                      view'[k] = trace'[1].stateToSet[k]
                 /\ view'.selectedItem = view.selectedItem
                 /\ state'.selectedItem = state.selectedItem]_vars

\* C21 witness: text typed into a closed component with an item selected and
\* an item highlighted
C21_Witness ==
  /\ session = "Downshift" /\ call.op = "inputHandleChange"
  /\ reducerKind = "default" /\ Controlled = {}
  /\ Len(trace) = 1
  /\ ~trace[1].pre.isOpen
  /\ trace[1].pre.highlightedIndex # defaultHighlightedIndex
  /\ trace[1].pre.selectedItem # Null
  /\ trace[1].pre.inputValue # view.inputValue
  /\ view.isOpen
  /\ view.highlightedIndex = defaultHighlightedIndex
  /\ view.selectedItem = trace[1].pre.selectedItem



\* C23: Escape clears selectedItem (to null) and inputValue (to the empty
\* string) exactly when the effective isOpen, the prop when it is controlled,
\* is false at the key press; when it is true the patch has no selectedItem
C23_EscapeClearsWhenClosed ==
  [][call'.op = "keyDownEscape"
      => /\ Len(trace') = 1
         /\ Has(trace'[1].stateToSet, "selectedItem") <=> ~view.isOpen
         /\ ~view.isOpen
              => /\ trace'[1].stateToSet.selectedItem = Null
                 /\ trace'[1].stateToSet.inputValue = ""]_vars



\* the onInputValueChange calls of the last call
InputValueCalls ==
  Cardinality({i \in DOMAIN log : log[i].n = "onInputValueChange"})

\* C22: when the caller changes the controlled selectedItem, the component
\* makes exactly one transition, of type controlledPropUpdatedSelectedItem,
\* that sets inputValue to itemToString of the new item, if
\* selectedItemChanged(previous, new) is true, and no transition and no
\* onInputValueChange if it is false; isOpen and highlightedIndex stay as
\* they were either way
C22_SelectedItemPropUpdate ==
  [][(/\ call'.op = "componentDidUpdate"
      /\ props'.selectedItem # props.selectedItem)
       => /\ IF selectedItemChanged(props', props.selectedItem,
                                    props'.selectedItem)
             THEN /\ Len(trace') = 1
                  /\ trace'[1].stateToSet =
                       [type |-> "controlledPropUpdatedSelectedItem",
                        inputValue |-> itemToString(props'.selectedItem)]
                  /\ view'.inputValue = itemToString(props'.selectedItem)
             ELSE /\ trace' = <<>>
                  /\ InputValueCalls' = 0
                  /\ state' = state
          /\ view'.isOpen = view.isOpen
          /\ state'.isOpen = state.isOpen
          /\ view'.highlightedIndex = view.highlightedIndex]_vars

\* C22 witness: the selection prop went from one item to another with
\* another id while the menu was open with an item highlighted, and the text
\* followed
C22_Witness ==
  /\ call.op = "componentDidUpdate"
  /\ Len(trace) = 1
  /\ trace[1].pre.selectedItem = props.selectedItem
  /\ props.selectedItem # Null
  /\ trace[1].pre.inputValue # itemToString(props.selectedItem)
  /\ view.inputValue = itemToString(props.selectedItem)
  /\ view.isOpen /\ view.highlightedIndex # Null
  /\ InputValueCalls = 1



\* the calls that reset: reset() itself, with or without a selectedItem in
\* the extra patch, the blur timers and the outside events
ResetOps == {"reset", "resetWith", "blurInput", "blurButton", "mouseUp",
             "touchEnd"}

\* C24: a reset (programmatic, of a blur, of an outside interaction) sets
\* isOpen and highlightedIndex to their defaults and inputValue to
\* itemToString of the effective selectedItem of the moment, and leaves
\* selectedItem as it was unless the caller's extra patch sets it
C24_ResetRestoresDefaults ==
  [][(call'.op \in ResetOps /\ trace' # <<>>)
       => /\ Len(trace') = 1
          /\ trace'[1].isFn
          /\ trace'[1].pre = view
          /\ \A k \in StateKeys \ {"selectedItem"} : Has(trace'[1].stateToSet, k)
          /\ trace'[1].stateToSet.isOpen = defaultIsOpen
          /\ trace'[1].stateToSet.highlightedIndex = defaultHighlightedIndex
          /\ trace'[1].stateToSet.inputValue = itemToString(view.selectedItem)
          /\ view'.isOpen = defaultIsOpen
          /\ view'.highlightedIndex = defaultHighlightedIndex
          /\ view'.inputValue = itemToString(view.selectedItem)
          /\ IF call'.op = "resetWith"
             THEN /\ Has(trace'[1].stateToSet, "selectedItem")
                  /\ "selectedItem" \notin Controlled
                       => view'.selectedItem = trace'[1].stateToSet.selectedItem
             ELSE /\ ~Has(trace'[1].stateToSet, "selectedItem")
                  /\ view'.selectedItem = view.selectedItem
                  /\ state'.selectedItem = state.selectedItem]_vars

\* C24 witness: the timer of the input's blur reset an open component whose
\* text was not the one of its selected item
C24_Witness ==
  /\ call.op = "blurInput"
  /\ Len(trace) = 1
  /\ trace[1].pre.isOpen /\ trace[1].pre.highlightedIndex # Null
  /\ trace[1].pre.selectedItem # Null
  /\ trace[1].pre.inputValue # itemToString(trace[1].pre.selectedItem)
  /\ ~view.isOpen /\ view.highlightedIndex = Null
  /\ view.inputValue = itemToString(view.selectedItem)
  /\ view.selectedItem = trace[1].pre.selectedItem


(* ------------------------- keyboard navigation -------------------------- *)

\* no item of the list is disabled
NoneDisabled == disabledIndexes \cap (0..(getItemCount - 1)) = {}

\* every item of the list is disabled
AllDisabled == (0..(getItemCount - 1)) \subseteq disabledIndexes

\* the operations of an arrow key, and the amount each moves the highlight by
\* in an open menu
MoveAmount ==
  [keyDownArrowDown |-> 1, keyDownArrowUp |-> -1,
   keyDownShiftArrowDown |-> 5, keyDownShiftArrowUp |-> -5]

\* C27: an ArrowDown on a closed widget with items, none disabled, and no
\* highlight leaves it open with index 0 highlighted; an ArrowUp leaves it
\* open with the last index highlighted.
C27_ArrowOpensAtEdge ==
  [][(/\ session = "Downshift"
      /\ call'.op \in {"keyDownArrowDown", "keyDownArrowUp"}
      /\ ~view.isOpen
      /\ getItemCount > 0
      /\ NoneDisabled
      /\ view.highlightedIndex \in {Null, -1})
     => /\ view'.isOpen
        /\ view'.highlightedIndex =
             IF call'.op = "keyDownArrowDown" THEN 0 ELSE getItemCount - 1]_vars

\* C27 witness: an ArrowUp opened a closed menu of three items on the last
C27_Witness ==
  /\ session = "Downshift"
  /\ call.op = "keyDownArrowUp"
  /\ Len(trace) = 2
  /\ ~trace[1].pre.isOpen
  /\ trace[1].pre.highlightedIndex = Null
  /\ getItemCount = MaxItems
  /\ NoneDisabled
  /\ view.isOpen
  /\ view.highlightedIndex = MaxItems - 1

\* C28: with items and none disabled, a move by one from an index of the list
\* wraps at the ends: from the last index forwards to 0, from 0 backwards to
\* the last index, and to the neighbour otherwise.
C28_MoveByOneWraps ==
  [][(/\ session = "Downshift"
      /\ call'.op \in {"keyDownArrowDown", "keyDownArrowUp"}
      /\ view.isOpen
      /\ getItemCount > 0
      /\ NoneDisabled
      /\ view.highlightedIndex \in 0..(getItemCount - 1))
     => \E i \in 0..(getItemCount - 1) :
          /\ i = view.highlightedIndex
          /\ view'.highlightedIndex =
               IF call'.op = "keyDownArrowDown"
               THEN (IF i = getItemCount - 1 THEN 0 ELSE i + 1)
               ELSE (IF i = 0 THEN getItemCount - 1 ELSE i - 1)]_vars

\* C28 witness: an ArrowDown on the last of three items moved the highlight to
\* the first
C28_Witness ==
  /\ session = "Downshift"
  /\ call.op = "keyDownArrowDown"
  /\ Len(trace) = 1
  /\ trace[1].pre.isOpen
  /\ trace[1].pre.highlightedIndex = MaxItems - 1
  /\ getItemCount = MaxItems
  /\ NoneDisabled
  /\ view.highlightedIndex = 0

\* C29: with every item disabled a move yields the sentinel -1 from every
\* start and for every step, and looks at no index more than once.
C29_MoveAmongDisabled ==
  [][(/\ session = "Downshift"
      /\ call'.op \in DOMAIN MoveAmount
      /\ view.isOpen
      /\ getItemCount > 0
      /\ AllDisabled)
     => /\ Len(trace') = 1
        /\ trace'[1].stateToSet.highlightedIndex = -1
        /\ view'.highlightedIndex = -1
        /\ moveWalk(view.highlightedIndex, MoveAmount[call'.op], getItemCount,
                    disabledIndexes, TRUE).visited <= getItemCount]_vars

\* C29 witness: a Shift+ArrowDown among three disabled items, one of them
\* highlighted, took the highlight away
C29_Witness ==
  /\ session = "Downshift"
  /\ call.op = "keyDownShiftArrowDown"
  /\ Len(trace) = 1
  /\ trace[1].pre.isOpen
  /\ trace[1].pre.highlightedIndex \in 0..(MaxItems - 1)
  /\ getItemCount = MaxItems
  /\ AllDisabled
  /\ view.highlightedIndex = -1

(* ------------------------- the highlight on open ------------------------ *)

\* the priority list of the highlight on open for the arguments of a call:
\* whether each entry applies, and the highlight it gives
OnOpenPriorities(c) ==
  LET p == c.props
      st == c.state
      n == Len(p.items)
  IN << [applies |-> n = 0, index |-> -1],
        [applies |-> /\ Has(p, "initialHighlightedIndex")
                     /\ st.highlightedIndex = p.initialHighlightedIndex,
         index |-> IF Has(p, "initialHighlightedIndex")
                   THEN p.initialHighlightedIndex ELSE -1],
        [applies |-> Has(p, "defaultHighlightedIndex"),
         index |-> IF Has(p, "defaultHighlightedIndex")
                   THEN p.defaultHighlightedIndex ELSE -1],
        [applies |-> Truthy(st.selectedItem),
         index |-> indexOf(p.items, st.selectedItem)],
        [applies |-> c.offset = 0, index |-> -1],
        [applies |-> c.offset < 0, index |-> n - 1],
        [applies |-> c.offset > 0, index |-> 0] >>

WithoutInitial(p) == Pick(p, DOMAIN p \ {"initialHighlightedIndex"})

\* C26: initialHighlightedIndex gives the highlight on the first open of a
\* session only: when a menu that has been open before opens again, the
\* highlight is the one the other priorities give.
C26_InitialHighlightOnFirstOpenOnly ==
  [][(/\ session = "hooks"
      /\ Has(props, "initialHighlightedIndex")
      /\ opened
      /\ call'.op \in OpenActions
      /\ Len(trace') = 1
      /\ ~trace'[1].pre.isOpen)
     => trace'[1].stateToSet.highlightedIndex =
          getHighlightedIndexOnOpen(WithoutInitial(props), trace'[1].pre, 0)]_vars

\* C30: the highlight an open produces is -1 or an index of the list, and is
\* -1 when the list is empty.
C30_ProducedHighlightInRange ==
  [][(/\ session = "hooks"
      /\ Has(props, "items")
      /\ call'.op \in OpenActions
      /\ Len(trace') = 1
      /\ ~trace'[1].pre.isOpen)
     => \E h \in {trace'[1].stateToSet.highlightedIndex} :
          /\ h = -1 \/ h \in 0..(Len(props.items) - 1)
          /\ Len(props.items) = 0 => h = -1]_vars

(* --------------------- navigation in an open menu ----------------------- *)

\* C31: an ArrowDown or ArrowUp in an open menu changes highlightedIndex only,
\* to the result of the move by 1 (by 5 with the shift key) in the direction
\* of the key; isOpen, selectedItem and inputValue stay as they are.
C31_ArrowMovesHighlightOnly ==
  [][(/\ session = "Downshift"
      /\ call'.op \in DOMAIN MoveAmount
      /\ view.isOpen)
     => /\ \A k \in StateKeys \ {"highlightedIndex"} : view'[k] = view[k]
        /\ IF getItemCount > 0
           THEN /\ Len(trace') = 1
                /\ DOMAIN trace'[1].stateToSet = {"highlightedIndex", "type"}
                /\ view'.highlightedIndex =
                     getHighlightedIndex(view.highlightedIndex,
                                         MoveAmount[call'.op], getItemCount,
                                         disabledIndexes, TRUE)
           ELSE trace' = <<>> /\ view' = view]_vars

\* C31 witness: a Shift+ArrowDown on the first of the items, none disabled,
\* of an open menu with a text in its input moved the highlight by five
C31_Witness ==
  /\ session = "Downshift"
  /\ call.op = "keyDownShiftArrowDown"
  /\ Len(trace) = 1
  /\ trace[1].pre.isOpen
  /\ trace[1].pre.highlightedIndex = 0
  /\ trace[1].pre.inputValue = "x"
  /\ getItemCount = MaxItems
  /\ NoneDisabled
  /\ view.isOpen
  /\ view.inputValue = "x"
  /\ view.highlightedIndex = 5 % MaxItems

\* the indexes of the list that are not disabled
EnabledInList == (0..(getItemCount - 1)) \ disabledIndexes

\* no item is highlighted
NoHighlight(s) == s.highlightedIndex \in {Null, -1}

\* C32: a Home or End in an open menu with items highlights the first, resp.
\* the last, index that is not disabled; when every index is disabled the
\* highlight stays as it is; in a closed menu or with no items the key makes
\* no transition.
C32_HomeEndHighlightEdge ==
  [][(session = "Downshift" /\ call'.op \in {"keyDownHome", "keyDownEnd"})
     => IF ~view.isOpen \/ getItemCount <= 0
        THEN trace' = <<>> /\ view' = view
        ELSE IF EnabledInList = {}
        THEN \/ view'.highlightedIndex = view.highlightedIndex
             \/ NoHighlight(view) /\ NoHighlight(view')
        ELSE \E i \in EnabledInList :
               /\ view'.highlightedIndex = i
               /\ \A j \in EnabledInList :
                    IF call'.op = "keyDownHome" THEN i <= j ELSE j <= i]_vars

(* ----------------------------- the item count --------------------------- *)

\* the item count: the count set through setItemCount when one is set, else
\* the itemCount prop when it is given, else the number of registered items
CountInUse ==
  IF itemCount # Null THEN itemCount
  ELSE IF Has(props, "itemCount") THEN props.itemCount
  ELSE Len(registered)

\* C33: navigation uses the count set through setItemCount when one is set,
\* else the itemCount prop, else the number of items registered in this
\* render cycle; a render empties the registered items and keeps the count
\* setItemCount has set, which stays until unsetItemCount.
C33_ItemCountPriority ==
  [][/\ (session = "Downshift" /\ call'.op = "keyDownEnd" /\ view.isOpen)
        => IF CountInUse > 0
           THEN view'.highlightedIndex = CountInUse - 1
           ELSE trace' = <<>>
     /\ (session = "Downshift" /\ call'.op = "render")
        => registered' = <<>> /\ itemCount' = itemCount
     /\ itemCount' # itemCount
        => call'.op \in {"setItemCount", "unsetItemCount"}
     /\ call'.op = "unsetItemCount" => itemCount' = Null]_vars

\* C33 witness: End highlighted the last index of the count set through
\* setItemCount, with another itemCount prop and another number of items
\* registered since the last render
C33_Witness ==
  /\ session = "Downshift"
  /\ call.op = "keyDownEnd"
  /\ itemCount # Null
  /\ itemCount > 0
  /\ Has(props, "itemCount")
  /\ props.itemCount # itemCount
  /\ Len(registered) \notin {itemCount, props.itemCount, NumItems}
  /\ view.highlightedIndex = itemCount - 1

\* C40: a getItemProps call without an index registers its item at the
\* position equal to the number of items registered before it in the render
\* cycle and returns that position as the item's index.
C40_ItemIndexIsPosition ==
  [][(session = "Downshift" /\ call'.op = "getItemProps")
     => /\ registered' = Append(registered, call'.item)
        /\ call'.index = Len(registered)]_vars

(* ----------------------------- construction ---------------------------- *)

\* the inputValue the constructor derives from the selected item, the
\* initialInputValue or the empty string
DerivedInputValue ==
  IF view.selectedItem # Null /\ ~Has(props, "initialInputValue")
  THEN itemToString(view.selectedItem)
  ELSE propOr(props, "initialInputValue", "")

\* C34, as stated: after the construction inputValue is
\* itemToString(selectedItem) when the effective selectedItem is not null and
\* no initialInputValue is passed, and initialInputValue or "" otherwise.
C34_InitialInputValue ==
  (session = "Downshift" /\ call.op = "mount")
    => view.inputValue = DerivedInputValue

\* C34, amended: after the construction inputValue is the inputValue prop when
\* that prop is controlled; otherwise it is itemToString(selectedItem) when
\* the effective selectedItem is not null and no initialInputValue is passed,
\* and initialInputValue or "" when not.
C34_InitialInputValueUnlessControlled ==
  (session = "Downshift" /\ call.op = "mount")
    => view.inputValue = propOr(props, "inputValue", DerivedInputValue)

\* C34 witness: a component constructed with the controlled selectedItem 0 and
\* nothing else starts with the input "0"
C34_Witness ==
  /\ session = "Downshift"
  /\ call.op = "mount"
  /\ DOMAIN props = {"selectedItem"}
  /\ props.selectedItem = 0
  /\ view.inputValue = "0"

(* ------------------------- batched dispatches --------------------------- *)

\* C35: when the effect runs after two actions dispatched in a row, every
\* field an action changed is reported by an onStateChange call that carries
\* the new value and the type of that action.
C35_BatchedChangesKeepTheirType ==
  [][(session = "hooks" /\ call.op = "batch" /\ call'.op = "useEffect")
     => \A t \in DOMAIN trace : \A k \in Changed(trace[t]) :
          \E i \in DOMAIN log' :
            /\ log'[i].n = "onStateChange"
            /\ log'[i].changes.type = trace[t].patch.type
            /\ Has(log'[i].changes, k)
            /\ log'[i].changes[k] = trace[t].patch[k]]_vars

(* ------------------------- two widgets, one status ---------------------- *)

\* C36: with two hook widgets alive, the status update one of them asks for
\* leaves the pending announcement of the other in place.
C36_StatusOfOtherWidgetKept ==
  [][(session = "widgets" /\ call'.op = "render")
     => \A i \in DOMAIN statusTimers :
          statusTimers[i].widget # call'.widget
            => \E j \in DOMAIN statusTimers' :
                 statusTimers'[j] = statusTimers[i]]_vars

(* -------------------------------- toggleMenu --------------------------- *)

\* C37: toggleMenu passes a function whose patch sets isOpen to the negation
\* of the effective isOpen, with highlightedIndex at its default exactly when
\* the menu was open; the transition of its callback sets the highlight to
\* the value it has. With the default stateReducer an uncontrolled isOpen is
\* negated, opening leaves the highlight as it was, closing puts an
\* uncontrolled highlight at its default, and the second of two consecutive
\* calls brings an uncontrolled isOpen back.
C37_ToggleNegatesIsOpen ==
  [][call'.op = "toggleMenu"
      => /\ Len(trace') >= 1
         /\ trace'[1].isFn
         /\ trace'[1].pre = view
         /\ trace'[1].stateToSet.isOpen = ~view.isOpen
         /\ Has(trace'[1].stateToSet, "highlightedIndex") <=> view.isOpen
         /\ view.isOpen
              => trace'[1].stateToSet.highlightedIndex = defaultHighlightedIndex
         /\ \A i \in 2..Len(trace') :
              trace'[i].stateToSet =
                [highlightedIndex |-> trace'[i].pre.highlightedIndex]
         /\ reducerKind = "default"
              => /\ "isOpen" \notin Controlled
                      => /\ view'.isOpen = ~view.isOpen
                         /\ state'.isOpen = ~state.isOpen
                 /\ ~view.isOpen
                      => view'.highlightedIndex = view.highlightedIndex
                 /\ view.isOpen /\ "highlightedIndex" \notin Controlled
                      => view'.highlightedIndex = defaultHighlightedIndex
                 /\ call.op = "toggleMenu" /\ "isOpen" \notin Controlled
                      => view'.isOpen = trace[1].pre.isOpen]_vars

\* C37 witness: a call has opened the menu; its callback has set the
\* highlight again, to the value it had before the call
C37_Witness ==
  /\ session = "Downshift" /\ call.op = "toggleMenu"
  /\ reducerKind = "default" /\ Controlled = {}
  /\ Len(trace) = 2
  /\ ~trace[1].pre.isOpen
  /\ view.isOpen
  /\ view.highlightedIndex = trace[1].pre.highlightedIndex

(* ------------------------ pointer move over an item --------------------- *)

\* C38: a pointer move over the item at index i makes one transition that
\* sets highlightedIndex to i and nothing else, none when i is the highlight
\* already; and as long as the timer of a move is pending the scroll into
\* view is suppressed.
C38_MoveHighlightsAndSuppressesScroll ==
  [][/\ call'.op = "itemMouseEnter"
          => /\ Len(trace') = 1
             /\ \E i \in DOMAIN items :
                  /\ i # view.highlightedIndex
                  /\ trace'[1].stateToSet =
                       [highlightedIndex |-> i, type |-> "itemMouseEnter"]
                  /\ view' = [view EXCEPT !.highlightedIndex = i]
             /\ avoidScrolling'
     /\ call'.op = "itemMouseMove"
          => /\ trace' = <<>> /\ log' = <<>>
             /\ state' = state /\ view' = view
     /\ (session = "Downshift" /\ mounted'
           /\ "avoidScrolling" \in timeoutIds')
          => avoidScrolling']_vars

(* ----------------------------- the pointer flag ------------------------ *)

\* C39: isMouseDown is false at the mount, every mousedown the session
\* observes sets it, every mouseup clears it, whatever the target and whether
\* the widget is open, and nothing else writes it: the flag is true exactly
\* when the last of these events was a mousedown.
C39_MouseDownFlag ==
  /\ ~isMouseDown
  /\ [][/\ call'.op = "mouseDown" => isMouseDown'
        /\ call'.op = "mouseUp" => ~isMouseDown'
        /\ call'.op \notin {"mouseDown", "mouseUp"}
             => isMouseDown' = isMouseDown]_vars

\* C39 witness: a mouseup inside the open widget found the flag set and has
\* cleared it
C39_Witness ==
  /\ mounted /\ call.op = "mouseUp"
  /\ call.within /\ call.wasDown
  /\ view.isOpen
  /\ ~isMouseDown

====
